---- MODULE Spec2Model ----
(***************************************************************************)
(* Verification model of the collaborative editor.                         *)
(*                                                                         *)
(*   - the operation algebra of src/src/common/ot/opereation.cpp           *)
(*     (InsertOperation, DeleteOperation: apply, transform, serialize);    *)
(*   - the client document engine DocumentManager and its UndoRedoManager  *)
(*     (src/src/common/ot/undo_redo_manager.h, src/unnamed/part_006);      *)
(*   - the websocket server CollaborativeEditingServer                     *)
(*     (src/include/server/session/server_manager.h, lines 208-328);       *)
(*   - the thread-pool connection Server::Connection                       *)
(*     (src/include/server/server.h);                                      *)
(*   - the session registry SessionHandler with UserSession and            *)
(*     SocketGuard (src/unnamed/part_012), as the connections use it.      *)
(*                                                                         *)
(* A text is a sequence of one-character strings; the data of a            *)
(* connection and the names in it are strings.                             *)
(***************************************************************************)
EXTENDS Integers, Sequences, FiniteSets, TLC

\* ------------------------------------------------------------------------
\* Bounds of the model
\* ------------------------------------------------------------------------

\* Connections the websocket server accepts over a run of the editing system.
MaxClients == 2

\* Connections the websocket server accepts over a run with reconnects.
MaxConns == 3

\* Edits submitted by all clients together over a run.
MaxOps == 2

\* Longest text drawn as input of the operation algebra.
MaxLen == 3

\* Worker threads of the thread pool.
NumWorkers == 2

\* Messages the peers send over all thread-pool connections together.
MaxMsgs == 2

\* Local operations of the user of the undo/redo editor.
MaxLocal == 2

\* Remote operations arriving at the undo/redo editor.
MaxRemote == 1

\* The small max_history_size an UndoRedoManager is constructed with.
MaxHistory == 1

\* Connections the session server accepts over a run.
MaxSessions == 2

\* Ticks of the clock over a run of the session server; they make one second.
MaxTime == 2

\* Document requests one unauthenticated connection sends.
MaxRequests == 3

\* Messages passed to ClientManager::sendMessage over a run.
MaxSends == 3

\* Calls each thread makes on the session over a run.
MaxCalls == 2

\* Tasks passed to ThreadPool::enqueue over a run.
MaxTasks == 3

\* Operations recorded in the history of the line-based Document.
MaxDocOps == 2

\* ------------------------------------------------------------------------
\* Operation algebra (opereation.cpp, operation.h)
\* ------------------------------------------------------------------------

\* std::optional<int64_t> without a value.
NoRelated == -1

\* Operation base fields as a freshly constructed operation has them.
InsertOperation(position, text) ==
    [type |-> "insert", position |-> position, text |-> text,
     id |-> 0, source |-> "LOCAL", relatedOperationId |-> NoRelated]

DeleteOperation(position, length, deleted_text) ==
    [type |-> "delete", position |-> position, length |-> length,
     deleted_text |-> deleted_text,
     id |-> 0, source |-> "LOCAL", relatedOperationId |-> NoRelated]

\* std::string::insert(pos, s), pos <= size.
StrInsert(document, pos, s) ==
    SubSeq(document, 1, pos) \o s \o SubSeq(document, pos + 1, Len(document))

\* std::string::substr(pos, n), pos <= size; n is cut at the end of the string.
Substr(s, pos, n) ==
    SubSeq(s, pos + 1, IF pos + n > Len(s) THEN Len(s) ELSE pos + n)

\* std::string::substr(pos), pos <= size.
SubstrFrom(s, pos) == SubSeq(s, pos + 1, Len(s))

\* std::string::erase(pos, n), pos <= size.
StrErase(document, pos, n) ==
    SubSeq(document, 1, pos) \o SubstrFrom(document, IF pos + n > Len(document) THEN Len(document) ELSE pos + n)

\* Operation::apply: whether it returns true.
ApplyOk(op, document) ==
    IF op.type = "insert"
    THEN op.position <= Len(document)
    ELSE op.position + op.length <= Len(document)

\* Operation::apply: the document afterwards (unchanged when apply fails).
ApplyDoc(op, document) ==
    IF ~ApplyOk(op, document) THEN document
    ELSE IF op.type = "insert"
         THEN StrInsert(document, op.position, op.text)
         ELSE StrErase(document, op.position, op.length)

\* apply as it would be if a delete never took the text it removes.
ApplyOp_NoCapture(op, document) == op

\* Operation::apply: the operation object afterwards. A delete whose
\* deleted_text_ is empty captures the removed text (the const_cast).
ApplyOp(op, document) ==
    IF op.type = "delete" /\ ApplyOk(op, document) /\ op.deleted_text = <<>>
    THEN [op EXCEPT !.deleted_text = Substr(document, op.position, op.length)]
    ELSE op

\* Operation::clone: a new object, base fields as constructed.
Clone(op) ==
    IF op.type = "insert" THEN InsertOperation(op.position, op.text)
    ELSE DeleteOperation(op.position, op.length, op.deleted_text)

\* InsertOperation::transform.
InsertTransform(self, other) ==
    IF other.type = "insert"
    THEN IF other.position <= self.position
         THEN [self EXCEPT !.position = self.position + Len(other.text)]
         ELSE self
    ELSE LET deleteEnd == other.position + other.length IN
         IF other.position < self.position
         THEN IF deleteEnd <= self.position
              THEN [self EXCEPT !.position = self.position - other.length]
              ELSE [self EXCEPT !.position = other.position]
         ELSE self

\* DeleteOperation::transform as it would be if a delete were only shifted
\* left by every delete that starts before it.
DeleteTransform_ShiftOnly(self, other) ==
    IF other.type = "insert"
    THEN IF other.position <= self.position
         THEN [self EXCEPT !.position = self.position + Len(other.text)]
         ELSE self
    ELSE IF other.position < self.position
         THEN DeleteOperation(IF self.position >= other.length
                              THEN self.position - other.length ELSE 0,
                              self.length, self.deleted_text)
         ELSE Clone(self)

\* DeleteOperation::transform.
DeleteTransform(self, other) ==
    IF other.type = "insert"
    THEN IF other.position <= self.position
         THEN [self EXCEPT !.position = self.position + Len(other.text)]
         ELSE IF other.position < self.position + self.length
              THEN [self EXCEPT !.length = self.length + Len(other.text)]
              ELSE self
    ELSE LET otherStart == other.position
             otherEnd   == otherStart + other.length
             thisStart  == self.position
             thisEnd    == thisStart + self.length
             dt         == self.deleted_text
         IN
         IF otherEnd <= thisStart
         THEN DeleteOperation(thisStart - other.length, self.length, dt)
         ELSE IF otherStart <= thisStart /\ otherEnd >= thisEnd
         THEN DeleteOperation(otherStart, 0, <<>>)
         ELSE IF otherStart <= thisStart /\ otherEnd < thisEnd
         THEN LET newLength == thisEnd - otherEnd IN
              DeleteOperation(otherStart, newLength,
                  IF Len(dt) >= newLength THEN SubstrFrom(dt, Len(dt) - newLength) ELSE <<>>)
         ELSE IF otherStart > thisStart /\ otherStart < thisEnd /\ otherEnd >= thisEnd
         THEN LET newLength == otherStart - thisStart IN
              DeleteOperation(thisStart, newLength,
                  IF Len(dt) >= newLength THEN Substr(dt, 0, newLength) ELSE <<>>)
         ELSE IF otherStart > thisStart /\ otherEnd < thisEnd
         THEN DeleteOperation(thisStart, self.length - other.length,
                  IF Len(dt) >= self.length
                  THEN Substr(dt, 0, otherStart - thisStart) \o SubstrFrom(dt, otherEnd - thisStart)
                  ELSE <<>>)
         ELSE Clone(self)

\* Operation::transform (virtual dispatch on the type of self).
Transform(self, other) ==
    IF self.type = "insert" THEN InsertTransform(self, other)
    ELSE DeleteTransform(self, other)

\* Operation::serialize: the JSON object, as the fields it carries.
Serialize(op) ==
    IF op.type = "insert"
    THEN [type |-> "insert", position |-> op.position, text |-> op.text]
    ELSE [type |-> "delete", position |-> op.position, length |-> op.length,
          text |-> op.deleted_text]

\* OperationFactory::deserialize.
Deserialize(j) ==
    IF j.type = "insert" THEN InsertOperation(j.position, j.text)
    ELSE DeleteOperation(j.position, j.length, j.text)

\* ------------------------------------------------------------------------
\* State
\* ------------------------------------------------------------------------

VARIABLES
    \* CollaborativeEditingServer and the objects it owns
    clients_,            \* std::map clientId -> websocket stream (the connection)
    document_,           \* DocumentController::document_
    revision_,           \* DocumentController::revision_
    operationLog_,       \* DocumentController::operationLog_
    operationHistory_,   \* OperationManager::operationHistory_
    currentRevision_,    \* OperationManager::currentRevision_
    \* one websocket connection and the client behind it
    connState,           \* "idle" (not yet accepted), "open", "closed"
    clientId,            \* the id doRead's handler captured for the connection
    inbox,               \* frames the client sent that the server has not read
    wrote,               \* frames the server wrote to the connection, in order
    nread,               \* how many frames of wrote the client has read
    manager,             \* the client's DocumentManager
    knownRevision,       \* revision of the server text the client last saw
    joinSeq,             \* messages the server had processed when the client joined
    \* history of the run
    commits,             \* one record per message processMessage handled
    nOps,                \* edits submitted so far
    \* operation algebra exercised on drawn inputs
    ot,
    \* Server::Connection and ThreadPool
    pool,
    \* one DocumentManager with its UndoRedoManager, edited, undone and redone
    ed,
    \* SessionHandler, its UserSessions and the connections that use it
    reg,
    \* ClientManager of the editor client
    cm,
    \* accesses of the server's threads to one session's fields
    acc,
    \* one Server: its running flag, acceptor, timer and signal set
    srv,
    \* one ThreadPool from construction to the end of its destructor
    tp,
    \* one line-based Document and the thread calling it
    doc

sysVars == <<clients_, document_, revision_, operationLog_, operationHistory_,
             currentRevision_, connState, clientId, inbox, wrote, nread,
             manager, knownRevision, joinSeq, commits, nOps>>

vars == <<clients_, document_, revision_, operationLog_, operationHistory_,
          currentRevision_, connState, clientId, inbox, wrote, nread,
          manager, knownRevision, joinSeq, commits, nOps, ot, pool, ed, reg, cm, acc, srv, tp, doc>>

Conns == 1 .. MaxConns

\* The text every document starts with.
InitialText == <<"a">>

\* The character the client behind connection c types.
CharOf(c) == IF c % 2 = 1 THEN "X" ELSE "Y"

\* UndoRedoManager(size_t max_history_size = 100)
DefaultMaxHistory == 100

Last(s) == s[Len(s)]

\* ------------------------------------------------------------------------
\* UndoRedoManager and DocumentManager (the client engine)
\* ------------------------------------------------------------------------

\* DocumentManager(initial_content)
NewManager(initial_content) ==
    [document_ |-> initial_content, undo_stack_ |-> <<>>, redo_stack_ |-> <<>>,
     max_history_size_ |-> DefaultMaxHistory, operation_counter_ |-> 0]

\* trimUndoStack as it would be if the newest entries were dropped instead.
trimUndoStack_DropNewest(stack, max) ==
    IF Len(stack) > max THEN SubSeq(stack, 1, max) ELSE stack

\* UndoRedoManager::trimUndoStack
RECURSIVE trimUndoStack(_, _)
trimUndoStack(stack, max) ==
    IF Len(stack) > max THEN trimUndoStack(Tail(stack), max) ELSE stack

\* addOperation as it would be if it kept the redo stack.
addOperation_KeepRedo(m, op) ==
    IF op.source # "LOCAL" THEN m
    ELSE [m EXCEPT !.undo_stack_ =
             IF Len(m.undo_stack_) + 1 > m.max_history_size_
             THEN Tail(Append(m.undo_stack_, Clone(op)))
             ELSE Append(m.undo_stack_, Clone(op))]

\* UndoRedoManager::addOperation
addOperation(m, op) ==
    IF op.source # "LOCAL" THEN m
    ELSE [m EXCEPT !.redo_stack_ = <<>>,
                   !.undo_stack_ = trimUndoStack(Append(m.undo_stack_, Clone(op)),
                                                 m.max_history_size_)]

\* UndoRedoManager::transformHistory (transform never returns null)
transformHistory(m, op) ==
    [m EXCEPT !.undo_stack_ = [i \in DOMAIN m.undo_stack_ |-> Transform(m.undo_stack_[i], op)],
              !.redo_stack_ = [i \in DOMAIN m.redo_stack_ |-> Transform(m.redo_stack_[i], op)]]

\* DocumentManager::applyLocalOperation: the operation object after the call
\* (source, id and a delete's captured text are set on the caller's object).
LocalOperationAfter(m, operation) ==
    LET tagged == IF operation.source \notin {"LOCAL_UNDO", "LOCAL_REDO"}
                  THEN [operation EXCEPT !.source = "LOCAL"] ELSE operation
        withId == IF tagged.id = 0
                  THEN [tagged EXCEPT !.id = m.operation_counter_ + 1] ELSE tagged
    IN ApplyOp(withId, m.document_)

\* applyLocalOperation as it would be if it recorded the operation whether
\* or not it applied.
applyLocalOperation_RecordAlways(m, operation) ==
    LET op == LocalOperationAfter(m, operation)
        counted == IF operation.id = 0
                   THEN [m EXCEPT !.operation_counter_ = m.operation_counter_ + 1] ELSE m
    IN addOperation([counted EXCEPT !.document_ = ApplyDoc(operation, m.document_)], op)

\* DocumentManager::applyLocalOperation: the manager after the call.
applyLocalOperation(m, operation) ==
    LET op == LocalOperationAfter(m, operation)
        counted == IF operation.id = 0
                   THEN [m EXCEPT !.operation_counter_ = m.operation_counter_ + 1] ELSE m
    IN IF ~ApplyOk(operation, m.document_) THEN counted
       ELSE addOperation([counted EXCEPT !.document_ = ApplyDoc(operation, m.document_)], op)

\* DocumentManager::applyRemoteOperation: the manager after the call.
applyRemoteOperation(m, operation) ==
    LET op == ApplyOp([operation EXCEPT !.source = "REMOTE"], m.document_)
    IN IF ~ApplyOk(operation, m.document_) THEN m
       ELSE transformHistory([m EXCEPT !.document_ = ApplyDoc(operation, m.document_)], op)

\* Operation::inverse: whether it returns (a delete without deleted text
\* throws std::runtime_error).
InverseOk(op) == op.type = "insert" \/ op.deleted_text # <<>>

\* inverse as it would be if the inverse always acted at the start of the text.
Inverse_AtStart(op) ==
    IF op.type = "insert"
    THEN DeleteOperation(0, Len(op.text), op.text)
    ELSE InsertOperation(0, op.deleted_text)

\* Operation::inverse: the operation it returns.
Inverse(op) ==
    IF op.type = "insert"
    THEN DeleteOperation(op.position, Len(op.text), op.text)
    ELSE InsertOperation(op.position, op.deleted_text)

\* No operation returned (std::nullopt, or none because of the throw).
NoOperation == [type |-> "none"]

\* UndoRedoManager::undo on the manager's document, as DocumentManager::undo
\* calls it. result is "empty" (nullopt, nothing to undo), "threw" (inverse()
\* threw after the entry was popped), "failed" (the inverse did not apply, the
\* entry was put back) or "ok"; op is the operation returned.
undo(m) ==
    IF m.undo_stack_ = <<>>
    THEN [m |-> m, result |-> "empty", op |-> NoOperation]
    ELSE LET op == Last(m.undo_stack_)
             popped == [m EXCEPT !.undo_stack_ = SubSeq(@, 1, Len(@) - 1)]
         IN IF ~InverseOk(op)
            THEN [m |-> popped, result |-> "threw", op |-> NoOperation]
            ELSE LET inverse_op == [Inverse(op) EXCEPT
                                       !.source = "LOCAL_UNDO",
                                       !.relatedOperationId = op.id]
                 IN IF ~ApplyOk(inverse_op, m.document_)
                    THEN [m |-> m, result |-> "failed", op |-> NoOperation]
                    ELSE [m |-> [popped EXCEPT
                                    !.document_ = ApplyDoc(inverse_op, m.document_),
                                    !.redo_stack_ = Append(@, op)],
                          result |-> "ok",
                          op |-> ApplyOp(inverse_op, m.document_)]

\* UndoRedoManager::redo on the manager's document, as DocumentManager::redo
\* calls it.
redo(m) ==
    IF m.redo_stack_ = <<>>
    THEN [m |-> m, result |-> "empty", op |-> NoOperation]
    ELSE LET op == Last(m.redo_stack_)
             popped == [m EXCEPT !.redo_stack_ = SubSeq(@, 1, Len(@) - 1)]
             redo_op == [Clone(op) EXCEPT !.source = "LOCAL_REDO",
                                          !.relatedOperationId = op.id]
         IN IF ~ApplyOk(redo_op, m.document_)
            THEN [m |-> m, result |-> "failed", op |-> NoOperation]
            ELSE [m |-> [popped EXCEPT
                            !.document_ = ApplyDoc(redo_op, m.document_),
                            !.undo_stack_ = Append(@, op)],
                  result |-> "ok",
                  op |-> ApplyOp(redo_op, m.document_)]

\* ------------------------------------------------------------------------
\* DocumentController and OperationManager (the server's document)
\* ------------------------------------------------------------------------

\* OperationManager::transformOperation: op folded, oldest first, over the
\* recorded operations of revisions baseRevision+1 .. currentRevision_.
RECURSIVE transformOperation(_, _, _)
transformOperation(op, history, baseRevision) ==
    IF baseRevision >= Len(history) THEN op
    ELSE transformOperation(Transform(op, history[baseRevision + 1]), history, baseRevision + 1)

\* OperationManager::processOperation
processOperation(op, cid, baseRevision) ==
    transformOperation(op, operationHistory_, baseRevision)

\* DocumentController::applyOperation: apply, and on success log and bump.
applyOperation(op) ==
    IF ApplyOk(op, document_)
    THEN /\ document_' = ApplyDoc(op, document_)
         /\ operationLog_' = Append(operationLog_, ApplyOp(op, document_))
         /\ revision_' = revision_ + 1
    ELSE UNCHANGED <<document_, operationLog_, revision_>>

\* OperationManager::recordOperation
recordOperation(op) ==
    /\ operationHistory_' = Append(operationHistory_, op)
    /\ currentRevision_' = currentRevision_ + 1

\* ------------------------------------------------------------------------
\* CollaborativeEditingServer
\* ------------------------------------------------------------------------

\* One frame on a connection: the serialized operation. seq is the number of
\* the processed message that caused it (for the record, not on the wire).
Frame(op, seq) == [kind |-> "op", msg |-> Serialize(op), seq |-> seq]

\* std::map::erase(key)
MapErase(map, key) == [k \in DOMAIN map \ {key} |-> map[k]]

\* map[key] = value
MapPut(map, key, value) ==
    [k \in DOMAIN map \cup {key} |-> IF k = key THEN value ELSE map[k]]

\* broadcastOperation as it would be if a later frame could overtake an
\* earlier one on its way to a subscriber.
broadcastOperation_Overtake(sourceClientId, op, seq) ==
    [c \in Conns |->
        IF \E id \in DOMAIN clients_ : id # sourceClientId /\ clients_[id] = c
        THEN <<Frame(op, seq)>> \o wrote[c]
        ELSE wrote[c]]

\* CollaborativeEditingServer::broadcastOperation: the frames written, per
\* connection: to every entry of clients_ whose id is not the source's.
broadcastOperation(sourceClientId, op, seq) ==
    [c \in Conns |->
        IF \E id \in DOMAIN clients_ : id # sourceClientId /\ clients_[id] = c
        THEN Append(wrote[c], Frame(op, seq))
        ELSE wrote[c]]

\* CollaborativeEditingServer::doAccept, handshake completed: the new client
\* is registered as "client_<size+1>" and reading starts. The client opens
\* its DocumentManager on the text the server holds at that moment.
doAccept(c) ==
    /\ connState[c] = "idle"
    /\ \A d \in Conns : d < c => connState[d] # "idle"
    /\ LET id == Cardinality(DOMAIN clients_) + 1 IN
       /\ clients_' = MapPut(clients_, id, c)
       /\ clientId' = [clientId EXCEPT ![c] = id]
    /\ connState' = [connState EXCEPT ![c] = "open"]
    /\ manager' = [manager EXCEPT ![c] = NewManager(document_)]
    /\ knownRevision' = [knownRevision EXCEPT ![c] = revision_]
    /\ joinSeq' = [joinSeq EXCEPT ![c] = Len(commits)]
    /\ UNCHANGED <<document_, revision_, operationLog_, operationHistory_,
                   currentRevision_, inbox, wrote, nread, commits, nOps, ot, pool, ed, reg, cm, acc, srv, tp, doc>>

\* processMessage as it would be if the operation were recorded whether or
\* not it applied.
processMessage_RecordAlways(c) ==
    LET cid == clientId[c]
        frame == Head(inbox[c])
        op == Deserialize(frame.msg)
        transformedOp == processOperation(op, cid, revision_)
        ok == ApplyOk(transformedOp, document_)
        applied == ApplyOp(transformedOp, document_)
    IN
    /\ applyOperation(transformedOp)
    /\ recordOperation(applied)
    /\ IF ok
       THEN wrote' = broadcastOperation(cid, applied, Len(commits) + 1)
       ELSE UNCHANGED wrote
    /\ commits' = Append(commits,
           [conn |-> c, clientId |-> cid, op |-> op, base |-> frame.base,
            at |-> revision_, applied |-> applied, ok |-> ok])

\* processMessage as it would be if the operation were broadcast whether or
\* not it applied.
processMessage_BroadcastAlways(c) ==
    LET cid == clientId[c]
        frame == Head(inbox[c])
        op == Deserialize(frame.msg)
        transformedOp == processOperation(op, cid, revision_)
        ok == ApplyOk(transformedOp, document_)
        applied == ApplyOp(transformedOp, document_)
    IN
    /\ applyOperation(transformedOp)
    /\ IF ok THEN recordOperation(applied)
             ELSE UNCHANGED <<operationHistory_, currentRevision_>>
    /\ wrote' = broadcastOperation(cid, applied, Len(commits) + 1)
    /\ commits' = Append(commits,
           [conn |-> c, clientId |-> cid, op |-> op, base |-> frame.base,
            at |-> revision_, applied |-> applied, ok |-> ok])

\* CollaborativeEditingServer::processMessage
processMessage(c) ==
    LET cid == clientId[c]
        frame == Head(inbox[c])
        op == Deserialize(frame.msg)
        baseRevision == revision_
        transformedOp == processOperation(op, cid, baseRevision)
        ok == ApplyOk(transformedOp, document_)
        applied == ApplyOp(transformedOp, document_)
    IN
    /\ applyOperation(transformedOp)
    /\ IF ok
       THEN /\ recordOperation(applied)
            /\ wrote' = broadcastOperation(cid, applied, Len(commits) + 1)
       ELSE UNCHANGED <<operationHistory_, currentRevision_, wrote>>
    /\ commits' = Append(commits,
           [conn |-> c, clientId |-> cid, op |-> op, base |-> frame.base,
            at |-> revision_, applied |-> applied, ok |-> ok])

\* CollaborativeEditingServer::doRead, a frame arrived: process it, read on.
doRead(c) ==
    /\ connState[c] = "open"
    /\ inbox[c] # <<>>
    /\ processMessage(c)
    /\ inbox' = [inbox EXCEPT ![c] = Tail(inbox[c])]
    /\ UNCHANGED <<clients_, connState, clientId, nread, manager, knownRevision,
                   joinSeq, nOps, ot, pool, ed, reg, cm, acc, srv, tp, doc>>

\* CollaborativeEditingServer::doRead, the read failed: the client has gone,
\* its id is erased from clients_. The client's engine and the frames still
\* on their way to it go with the connection.
doReadError(c) ==
    /\ connState[c] = "open"
    /\ inbox[c] = <<>>
    /\ clients_' = MapErase(clients_, clientId[c])
    /\ connState' = [connState EXCEPT ![c] = "closed"]
    /\ wrote' = [wrote EXCEPT ![c] = <<>>]
    /\ nread' = [nread EXCEPT ![c] = 0]
    /\ manager' = [manager EXCEPT ![c] = NewManager(<<>>)]
    /\ knownRevision' = [knownRevision EXCEPT ![c] = 0]
    /\ joinSeq' = [joinSeq EXCEPT ![c] = 0]
    /\ UNCHANGED <<document_, revision_, operationLog_, operationHistory_,
                   currentRevision_, clientId, inbox, commits, nOps, ot, pool, ed, reg, cm, acc, srv, tp, doc>>

\* ------------------------------------------------------------------------
\* The client behind a connection
\* ------------------------------------------------------------------------

\* The edits a user can make on the text in front of them.
LocalEdits(c) ==
    LET n == Len(manager[c].document_) IN
    {InsertOperation(p, <<CharOf(c)>>) : p \in 0 .. n}
        \cup {DeleteOperation(p, 1, <<>>) : p \in 0 .. n - 1}

\* A local edit: applied to the client's document at once
\* (DocumentManager::applyLocalOperation), then sent to the server.
ClientEdit(c) ==
    /\ connState[c] = "open"
    /\ nOps < MaxOps
    /\ \E e \in LocalEdits(c) :
          /\ manager' = [manager EXCEPT ![c] = applyLocalOperation(manager[c], e)]
          /\ inbox' = [inbox EXCEPT ![c] = Append(inbox[c],
                 [msg |-> Serialize(LocalOperationAfter(manager[c], e)),
                  base |-> knownRevision[c]])]
    /\ nOps' = nOps + 1
    /\ UNCHANGED <<clients_, document_, revision_, operationLog_, operationHistory_,
                   currentRevision_, connState, clientId, wrote, nread,
                   knownRevision, joinSeq, commits, ot, pool, ed, reg, cm, acc, srv, tp, doc>>

\* A broadcast frame arrives: DocumentManager::applyRemoteOperation.
ClientReceive(c) ==
    /\ connState[c] = "open"
    /\ nread[c] < Len(wrote[c])
    /\ LET frame == wrote[c][nread[c] + 1] IN
       /\ manager' = [manager EXCEPT ![c] =
              applyRemoteOperation(manager[c], Deserialize(frame.msg))]
       /\ knownRevision' = [knownRevision EXCEPT ![c] = commits[frame.seq].at + 1]
    /\ nread' = [nread EXCEPT ![c] = nread[c] + 1]
    /\ UNCHANGED <<clients_, document_, revision_, operationLog_, operationHistory_,
                   currentRevision_, connState, clientId, inbox, wrote,
                   joinSeq, commits, nOps, ot, pool, ed, reg, cm, acc, srv, tp, doc>>

\* ------------------------------------------------------------------------
\* Specification of the editing system
\* ------------------------------------------------------------------------

OtIdle == [phase |-> "off"]
PoolIdle == [phase |-> "off"]
EdIdle == [phase |-> "off"]
RegIdle == [phase |-> "off"]
CmIdle == [phase |-> "off"]
AccIdle == [phase |-> "off"]
SrvIdle == [phase |-> "off"]
TpIdle == [phase |-> "off"]
DocIdle == [phase |-> "off"]

SysInit ==
    /\ clients_ = <<>>
    /\ document_ = InitialText
    /\ revision_ = 0
    /\ operationLog_ = <<>>
    /\ operationHistory_ = <<>>
    /\ currentRevision_ = 0
    /\ connState = [c \in Conns |-> "idle"]
    /\ clientId = [c \in Conns |-> 0]
    /\ inbox = [c \in Conns |-> <<>>]
    /\ wrote = [c \in Conns |-> <<>>]
    /\ nread = [c \in Conns |-> 0]
    /\ manager = [c \in Conns |-> NewManager(<<>>)]
    /\ knownRevision = [c \in Conns |-> 0]
    /\ joinSeq = [c \in Conns |-> 0]
    /\ commits = <<>>
    /\ nOps = 0

Init ==
    /\ SysInit
    /\ reg = RegIdle
    /\ cm = CmIdle
    /\ acc = AccIdle
    /\ srv = SrvIdle
    /\ tp = TpIdle
    /\ doc = DocIdle
    /\ ot = OtIdle
    /\ pool = PoolIdle
    /\ ed = EdIdle

\* The editing system: at most MaxClients connections are ever accepted.
Next ==
    \E c \in 1 .. MaxClients :
        \/ doAccept(c)
        \/ doRead(c)
        \/ doReadError(c)
        \/ ClientEdit(c)
        \/ ClientReceive(c)

Spec == Init /\ [][Next]_vars

\* The same system with more connections coming and going, so that a client
\* can connect after another has left.
NextReconnect ==
    \E c \in Conns :
        \/ doAccept(c)
        \/ doRead(c)
        \/ doReadError(c)
        \/ ClientEdit(c)
        \/ ClientReceive(c)

SpecReconnect == Init /\ [][NextReconnect]_vars

\* ------------------------------------------------------------------------
\* The operation algebra on drawn inputs
\* ------------------------------------------------------------------------

Letters == <<"a", "b", "c", "d", "e", "f">>

\* The texts operations are drawn for: "", "a", "ab", ... up to MaxLen.
Texts == {SubSeq(Letters, 1, n) : n \in 0 .. MaxLen}

\* The operations an author can draw on text T: inserts of the author's one-
\* or two-character text anywhere, deletes of any range of T (the empty
\* range included, as DeleteOperation::transform produces it), with the
\* deleted text captured (as after a local apply) or not yet captured.
OpsOn(T, ch) ==
    LET ranges == {r \in (0 .. Len(T)) \X (0 .. MaxLen) : r[1] + r[2] <= Len(T)}
    IN {InsertOperation(p, s) : p \in 0 .. Len(T), s \in {<<ch>>, <<ch, ch>>}}
           \cup {DeleteOperation(r[1], r[2], <<>>) : r \in ranges}
           \cup {DeleteOperation(r[1], r[2], Substr(T, r[1], r[2])) : r \in ranges}

OTInit ==
    \E T \in Texts : \E A \in OpsOn(T, "X") : \E B \in OpsOn(T, "Y") :
        ot = [phase |-> "drawn", T |-> T, A |-> A, B |-> B]

\* A' = A.transform(B) and B' = B.transform(A).
OTTransform ==
    /\ ot.phase = "drawn"
    /\ ot' = [phase |-> "transformed", T |-> ot.T, A |-> ot.A, B |-> ot.B,
              At |-> Transform(ot.A, ot.B), Bt |-> Transform(ot.B, ot.A)]
    /\ UNCHANGED <<sysVars, pool, ed, reg, cm, acc, srv, tp, doc>>

\* Both orders on T: A then B', and B then A'.
OTApply ==
    /\ ot.phase = "transformed"
    /\ ot' = [phase |-> "applied", T |-> ot.T, A |-> ot.A, B |-> ot.B,
              At |-> ot.At, Bt |-> ot.Bt,
              left |-> ApplyDoc(ot.Bt, ApplyDoc(ot.A, ot.T)),
              right |-> ApplyDoc(ot.At, ApplyDoc(ot.B, ot.T))]
    /\ UNCHANGED <<sysVars, pool, ed, reg, cm, acc, srv, tp, doc>>

InitOT ==
    /\ SysInit
    /\ reg = RegIdle
    /\ cm = CmIdle
    /\ acc = AccIdle
    /\ srv = SrvIdle
    /\ tp = TpIdle
    /\ doc = DocIdle
    /\ OTInit
    /\ pool = PoolIdle
    /\ ed = EdIdle

\* A applied to T, then A.inverse() applied to the result. inverse is
\* "threw" when A.inverse() throws, and then nothing more is applied.
OTInverse ==
    /\ ot.phase = "drawn"
    /\ LET applied == ApplyOp(ot.A, ot.T)
           after == ApplyDoc(ot.A, ot.T)
       IN ot' = [phase |-> "inverted", T |-> ot.T, A |-> ot.A, B |-> ot.B,
                 applied |-> applied, after |-> after,
                 inverse |-> IF InverseOk(applied) THEN "ok" ELSE "threw",
                 back |-> IF InverseOk(applied)
                          THEN ApplyDoc(Inverse(applied), after) ELSE after,
                 backOk |-> InverseOk(applied) /\ ApplyOk(Inverse(applied), after)]
    /\ UNCHANGED <<sysVars, pool, ed, reg, cm, acc, srv, tp, doc>>

\* The values setId, setSource and setRelatedOperationId give an operation.
OpIds == 0 .. 1
OpSources == {"LOCAL", "REMOTE"}
OpRelated == {NoRelated, 1}

\* A is given an id, a source tag and a related id, and then cloned.
OTClone ==
    /\ ot.phase = "drawn"
    /\ \E id \in OpIds : \E source \in OpSources : \E related \in OpRelated :
        LET original == [ot.A EXCEPT !.id = id, !.source = source,
                                     !.relatedOperationId = related]
        IN ot' = [phase |-> "cloned", T |-> ot.T, A |-> ot.A, B |-> ot.B,
                  original |-> original, copy |-> Clone(original)]
    /\ UNCHANGED <<sysVars, pool, ed, reg, cm, acc, srv, tp, doc>>

\* A transformed against B and then against a third operation C of T, and in
\* the other order.
OTTransformTwo ==
    /\ ot.phase = "drawn"
    /\ \E C \in OpsOn(ot.T, "Z") :
        ot' = [phase |-> "twice", T |-> ot.T, A |-> ot.A, B |-> ot.B, C |-> C,
               viaB |-> Transform(Transform(ot.A, ot.B), C),
               viaC |-> Transform(Transform(ot.A, C), ot.B)]
    /\ UNCHANGED <<sysVars, pool, ed, reg, cm, acc, srv, tp, doc>>

NextOT == OTTransform \/ OTApply \/ OTInverse \/ OTClone \/ OTTransformTwo

SpecOT == InitOT /\ [][NextOT]_vars

\* C2: transform convergence (TP1). For operations A and B that both apply
\* to T, A followed by B.transform(A) gives the same text as B followed by
\* A.transform(B).
TP1 ==
    ot.phase = "applied" => ot.left = ot.right

\* C3: deterministic tie-break. Two concurrent inserts at one position give
\* the same text whichever is committed first, with the text of the author
\* that sorts first (A) in front of the other's (B).
InsertTieBreak ==
    (/\ ot.phase = "applied"
     /\ ot.A.type = "insert" /\ ot.B.type = "insert"
     /\ ot.A.position = ot.B.position)
    => LET expected == StrInsert(ot.T, ot.A.position, ot.A.text \o ot.B.text)
       IN ot.left = expected /\ ot.right = expected

\* ------------------------------------------------------------------------
\* Server::Connection over the ThreadPool (server.h)
\* ------------------------------------------------------------------------
\* pool is a record:
\*   conn[c]    "none", "open" (session created) or "closed" (handleError ran)
\*   socket[c]  messages the peer has sent that no read has returned yet
\*   reading[c] an async_read_some is outstanding on the connection
\*   tasks_     ThreadPool::tasks_, the FIFO of enqueued tasks
\*   worker[w]  the task worker w is running, or Idle
\*   io         handlers posted to the io_context, run in order by its thread
\*   out[c]     responses handed to async_write, in order
\*   nsent      messages sent by all peers so far
\*   readLog[c], startLog[c], doneLog[c]
\*              history: the data of each read, each task start and each
\*              task completion of the connection, with the worker

PoolConns == 1 .. MaxClients
Workers == 1 .. NumWorkers
Idle == [conn |-> 0]

\* processData on data that is no LOGIN/OPEN_DOCUMENT/CLOSE_DOCUMENT command:
\* the "Server received: <data> (processed by thread <id> ...)" response.
processData(data, w) == [received |-> data, thread |-> w]

\* Connection::start: arm one async_read_some.
start(p, c) == [p EXCEPT !.reading[c] = TRUE]

\* Variant of the read handler that arms the next read at once instead of
\* leaving it to the task.
processDataInThreadPool_Rearm(p, c, data) ==
    start([p EXCEPT !.tasks_ = Append(@, [conn |-> c, data |-> data])], c)

\* Connection::processDataInThreadPool: copy the data and enqueue the task.
\* The task itself is WorkerTake and WorkerFinish below.
processDataInThreadPool(p, c, data) ==
    [p EXCEPT !.tasks_ = Append(@, [conn |-> c, data |-> data])]

\* Server::handleNewConnection: create the session and the connection and
\* start reading.
handleNewConnection(c) ==
    /\ pool.phase = "on"
    /\ pool.conn[c] = "none"
    /\ pool' = start([pool EXCEPT !.conn[c] = "open"], c)
    /\ UNCHANGED <<sysVars, ot, ed, reg, cm, acc, srv, tp, doc>>

\* The peer of connection c sends its next message.
PeerSend(c) ==
    /\ pool.phase = "on"
    /\ pool.conn[c] = "open"
    /\ pool.nsent < MaxMsgs
    /\ pool' = [pool EXCEPT !.nsent = @ + 1,
                            !.socket[c] = Append(@, pool.nsent + 1)]
    /\ UNCHANGED <<sysVars, ot, ed, reg, cm, acc, srv, tp, doc>>

\* Completion handler of async_read_some without error: the read returns
\* some non-empty prefix of what the socket holds (bytes_transferred), and
\* the handler passes it to processDataInThreadPool.
ReadSome(c) ==
    /\ pool.phase = "on"
    /\ pool.reading[c]
    /\ \E n \in 1 .. Len(pool.socket[c]) :
           LET data == SubSeq(pool.socket[c], 1, n)
               got == [pool EXCEPT
                          !.reading[c] = FALSE,
                          !.socket[c] = SubSeq(@, n + 1, Len(@)),
                          !.readLog[c] = Append(@, data)]
           IN pool' = processDataInThreadPool(got, c, data)
    /\ UNCHANGED <<sysVars, ot, ed, reg, cm, acc, srv, tp, doc>>

\* Completion handler of async_read_some with an error (the peer closed
\* after everything it sent was read): handleError closes the session.
handleError(c) ==
    /\ pool.phase = "on"
    /\ pool.reading[c]
    /\ pool.socket[c] = <<>>
    /\ pool' = [pool EXCEPT !.reading[c] = FALSE, !.conn[c] = "closed"]
    /\ UNCHANGED <<sysVars, ot, ed, reg, cm, acc, srv, tp, doc>>

\* A worker thread takes the front task of tasks_ and begins to run it.
WorkerTake(w) ==
    /\ pool.phase = "on"
    /\ pool.worker[w] = Idle
    /\ pool.tasks_ # <<>>
    /\ LET task == Head(pool.tasks_)
       IN pool' = [pool EXCEPT
                      !.tasks_ = Tail(@),
                      !.worker[w] = task,
                      !.startLog[task.conn] =
                          Append(@, [data |-> task.data, worker |-> w])]
    /\ UNCHANGED <<sysVars, ot, ed, reg, cm, acc, srv, tp, doc>>

\* The task's processData returns; the task posts send(response) and then
\* start() to the io_context and ends.
WorkerFinish(w) ==
    /\ pool.phase = "on"
    /\ pool.worker[w] # Idle
    /\ LET task == pool.worker[w]
           response == processData(task.data, w)
       IN pool' = [pool EXCEPT
                      !.worker[w] = Idle,
                      !.io = @ \o <<[kind |-> "send", conn |-> task.conn,
                                     response |-> response],
                                    [kind |-> "start", conn |-> task.conn]>>,
                      !.doneLog[task.conn] =
                          Append(@, [data |-> task.data, worker |-> w])]
    /\ UNCHANGED <<sysVars, ot, ed, reg, cm, acc, srv, tp, doc>>

\* The io_context thread runs the next posted handler: Connection::send
\* hands the response to async_write, or Connection::start arms the read.
IoRun ==
    /\ pool.phase = "on"
    /\ pool.io # <<>>
    /\ LET h == Head(pool.io)
           rest == [pool EXCEPT !.io = Tail(@)]
       IN pool' = IF h.kind = "send"
                  THEN [rest EXCEPT !.out[h.conn] = Append(@, h.response)]
                  ELSE start(rest, h.conn)
    /\ UNCHANGED <<sysVars, ot, ed, reg, cm, acc, srv, tp, doc>>

InitPool ==
    /\ SysInit
    /\ reg = RegIdle
    /\ cm = CmIdle
    /\ acc = AccIdle
    /\ srv = SrvIdle
    /\ tp = TpIdle
    /\ doc = DocIdle
    /\ ot = OtIdle
    /\ ed = EdIdle
    /\ pool = [phase |-> "on",
               conn |-> [c \in PoolConns |-> "none"],
               socket |-> [c \in PoolConns |-> <<>>],
               reading |-> [c \in PoolConns |-> FALSE],
               tasks_ |-> <<>>,
               worker |-> [w \in Workers |-> Idle],
               io |-> <<>>,
               out |-> [c \in PoolConns |-> <<>>],
               nsent |-> 0,
               readLog |-> [c \in PoolConns |-> <<>>],
               startLog |-> [c \in PoolConns |-> <<>>],
               doneLog |-> [c \in PoolConns |-> <<>>]]

NextPool ==
    \/ \E c \in PoolConns :
           \/ handleNewConnection(c)
           \/ PeerSend(c)
           \/ ReadSome(c)
           \/ handleError(c)
    \/ \E w \in Workers :
           \/ WorkerTake(w)
           \/ WorkerFinish(w)
    \/ IoRun

SpecPool == InitPool /\ [][NextPool]_vars

DataOf(log) == [i \in 1 .. Len(log) |-> log[i].data]

IsPrefix(s, t) == Len(s) <= Len(t) /\ s = SubSeq(t, 1, Len(s))

\* C10: per-connection ordering under the thread pool. For every connection
\* the tasks start in the order their data was read from the socket, they
\* complete in the order they started, at most one of them has started and
\* not completed, and none is queued while another is running; this holds
\* whichever workers run them.
PerConnectionOrder ==
    pool.phase = "on" =>
        \A c \in PoolConns :
            /\ IsPrefix(DataOf(pool.startLog[c]), pool.readLog[c])
            /\ IsPrefix(pool.doneLog[c], pool.startLog[c])
            /\ Len(pool.startLog[c]) <= Len(pool.doneLog[c]) + 1
            /\ Len(pool.readLog[c]) <= Len(pool.doneLog[c]) + 1
            /\ Cardinality({w \in Workers : pool.worker[w] # Idle
                                            /\ pool.worker[w].conn = c}) <= 1

\* Two messages of one connection read by two reads and processed to
\* completion by two different workers.
TwoWorkersOneConnection ==
    /\ pool.phase = "on"
    /\ \E c \in PoolConns :
           /\ Len(pool.doneLog[c]) >= 2
           /\ pool.doneLog[c][1].worker # pool.doneLog[c][2].worker

\* ------------------------------------------------------------------------
\* One editor: DocumentManager and UndoRedoManager under local operations,
\* remote operations, undo and redo
\* ------------------------------------------------------------------------
\* ed is a record:
\*   m          the manager: document_, undo_stack_, redo_stack_, ...
\*   origin     the text the editor started with
\*   trail      the texts after each local operation of the opening run
\*   phase      "editing" (local operations only so far), "undoing" (then
\*              only undo calls), "redoing" (then, after as many undo calls
\*              as there were operations, only redo calls), "mixed" (else)
\*   calls      undo calls of the "undoing" phase, redo calls of "redoing"
\*   nLocal, nRemote   operations so far
\*   gU, gR     history: for each entry of undo_stack_ / redo_stack_, the id
\*              given to the original operation and the characters it
\*              inserted or deleted
\*   last       the last call: kind, result, operation, manager before

\* Every character typed is a different one, so that a character of the text
\* tells which operation put it there.
LocalChars == <<"p", "q", "r", "s", "t", "u">>
RemoteChars == <<"R", "S", "T", "U">>
EdInitialText == <<"a">>

\* The operations the user can make on the text: insert the next character
\* anywhere, delete one or two characters anywhere.
EdLocalEdits(e) ==
    LET n == Len(e.m.document_) IN
    {InsertOperation(p, <<LocalChars[e.nLocal + 1]>>) : p \in 0 .. n}
        \cup {DeleteOperation(r[1], r[2], <<>>) :
                  r \in {x \in (0 .. n) \X (1 .. 2) : x[1] + x[2] <= n}}

\* The operations that can arrive from the server, as deserialized.
EdRemoteEdits(e) ==
    LET n == Len(e.m.document_) IN
    {InsertOperation(p, <<RemoteChars[e.nRemote + 1]>>) : p \in 0 .. n}
        \cup {DeleteOperation(p, 1, <<>>) : p \in 0 .. n - 1}

\* The last n entries of a history stack.
KeepNewest(g, n) == SubSeq(g, Len(g) - n + 1, Len(g))

\* DocumentManager::applyLocalOperation with a user operation.
EdLocal ==
    /\ ed.phase # "off"
    /\ ed.nLocal < MaxLocal
    /\ \E e \in EdLocalEdits(ed) :
           LET op == LocalOperationAfter(ed.m, e)
               after == applyLocalOperation(ed.m, e)
               g == [id |-> op.id, type |-> op.type,
                     chars |-> IF op.type = "insert" THEN op.text ELSE op.deleted_text]
           IN ed' = [ed EXCEPT
                  !.m = after,
                  !.trail = IF ed.phase = "editing"
                            THEN Append(@, after.document_) ELSE @,
                  !.phase = IF ed.phase = "editing" THEN "editing" ELSE "mixed",
                  !.calls = 0,
                  !.nLocal = @ + 1,
                  !.gU = KeepNewest(Append(@, g), Len(after.undo_stack_)),
                  !.gR = <<>>,
                  !.last = [kind |-> "local", result |-> "ok", op |-> op,
                            before |-> ed.m]]
    /\ UNCHANGED <<sysVars, ot, pool, reg, cm, acc, srv, tp, doc>>

\* DocumentManager::applyRemoteOperation with an operation from the server.
EdRemote ==
    /\ ed.phase # "off"
    /\ ed.nRemote < MaxRemote
    /\ \E r \in EdRemoteEdits(ed) :
           ed' = [ed EXCEPT
                  !.m = applyRemoteOperation(ed.m, r),
                  !.phase = "mixed",
                  !.calls = 0,
                  !.nRemote = @ + 1,
                  !.last = [kind |-> "remote", result |-> "ok",
                            op |-> ApplyOp([r EXCEPT !.source = "REMOTE"], ed.m.document_),
                            before |-> ed.m]]
    /\ UNCHANGED <<sysVars, ot, pool, reg, cm, acc, srv, tp, doc>>

\* DocumentManager::undo
EdUndo ==
    /\ ed.phase # "off"
    /\ LET r == undo(ed.m)
           counted == ed.phase \in {"editing", "undoing"} /\ ed.calls < ed.nLocal
       IN ed' = [ed EXCEPT
              !.m = r.m,
              !.phase = IF counted THEN "undoing" ELSE "mixed",
              !.calls = IF counted THEN @ + 1 ELSE 0,
              !.gU = IF r.result \in {"ok", "threw"}
                     THEN SubSeq(@, 1, Len(@) - 1) ELSE @,
              !.gR = IF r.result = "ok" THEN Append(@, Last(ed.gU)) ELSE @,
              !.last = [kind |-> "undo", result |-> r.result, op |-> r.op,
                        before |-> ed.m]]
    /\ UNCHANGED <<sysVars, ot, pool, reg, cm, acc, srv, tp, doc>>

\* DocumentManager::redo
EdRedo ==
    /\ ed.phase # "off"
    /\ LET r == redo(ed.m)
           first == ed.phase = "undoing" /\ ed.calls = ed.nLocal
           counted == first \/ (ed.phase = "redoing" /\ ed.calls < ed.nLocal)
       IN ed' = [ed EXCEPT
              !.m = r.m,
              !.phase = IF counted THEN "redoing" ELSE "mixed",
              !.calls = IF first THEN 1 ELSE IF counted THEN @ + 1 ELSE 0,
              !.gR = IF r.result = "ok"
                     THEN SubSeq(@, 1, Len(@) - 1) ELSE @,
              !.gU = IF r.result = "ok" THEN Append(@, Last(ed.gR)) ELSE @,
              !.last = [kind |-> "redo", result |-> r.result, op |-> r.op,
                        before |-> ed.m]]
    /\ UNCHANGED <<sysVars, ot, pool, reg, cm, acc, srv, tp, doc>>

\* A DocumentManager on the initial text. Its UndoRedoManager has the default
\* max_history_size, or a small one given to the constructor.
InitUndo ==
    /\ SysInit
    /\ reg = RegIdle
    /\ cm = CmIdle
    /\ acc = AccIdle
    /\ srv = SrvIdle
    /\ tp = TpIdle
    /\ doc = DocIdle
    /\ ot = OtIdle
    /\ pool = PoolIdle
    /\ \E max \in {MaxHistory, DefaultMaxHistory} :
           ed = [phase |-> "editing",
                 m |-> [NewManager(EdInitialText) EXCEPT !.max_history_size_ = max],
                 origin |-> EdInitialText,
                 trail |-> <<EdInitialText>>,
                 calls |-> 0, nLocal |-> 0, nRemote |-> 0,
                 gU |-> <<>>, gR |-> <<>>,
                 last |-> [kind |-> "none", result |-> "ok", op |-> NoOperation,
                           before |-> NewManager(EdInitialText)]]

NextUndo == EdLocal \/ EdRemote \/ EdUndo \/ EdRedo

SpecUndo == InitUndo /\ [][NextUndo]_vars

\* The operations of the user that are out of range for the text: an insert
\* behind the end, a delete that reaches over the end.
EdRejectedEdits(e) ==
    LET n == Len(e.m.document_) IN
    {InsertOperation(n + 1, <<"r">>)}
        \cup {DeleteOperation(p, n + 1 - p, <<>>) : p \in 0 .. n}

\* What applyLocalOperation returns; the change callback and the operation
\* callback are called exactly when it returns true.
applyLocalOperationResult(m, operation) == ApplyOk(operation, m.document_)

\* DocumentManager::applyLocalOperation with an operation that does not
\* apply, once in a run.
EdLocalRejected ==
    /\ ed.phase # "off"
    /\ ed.m.operation_counter_ = ed.nLocal
    /\ \E e \in EdRejectedEdits(ed) :
           ed' = [ed EXCEPT
                  !.m = applyLocalOperation(ed.m, e),
                  !.last = [kind |-> "rejected",
                            result |-> applyLocalOperationResult(ed.m, e),
                            op |-> LocalOperationAfter(ed.m, e),
                            before |-> ed.m]]
    /\ UNCHANGED <<sysVars, ot, pool, reg, cm, acc, srv, tp, doc>>

\* The editor of a user alone, some of whose operations do not apply.
NextReject == EdLocal \/ EdUndo \/ EdRedo \/ EdLocalRejected

SpecReject == InitUndo /\ [][NextReject]_vars

\* ------------------------------------------------------------------------
\* Session registry (session_handler.h) and the connections that use it
\* (server.h)
\* ------------------------------------------------------------------------

\* Session ids stand for the UUIDs createSession draws.
Sids == 1 .. MaxSessions

\* The names a peer logs in with; "LOGIN:" with nothing behind it gives "".
Usernames == {"", "u"}

Documents == {"d"}

\* What a peer sends: a login, a document request, other data.
LoginData == {"LOGIN:" \o n : n \in Usernames}
DocumentData ==
    {"OPEN_DOCUMENT:" \o d : d \in Documents}
        \cup {"CLOSE_DOCUMENT:" \o d : d \in Documents}
PlainData == {"hi"}

\* steady_clock runs over one second in MaxTime ticks.
TicksPerSecond == MaxTime

\* The maxIdleSeconds cleanupIdleSessions is called with.
IdleLimits == {0, 1}

\* nullptr: no session id is 0.
NullSession == 0

\* UserSession(id): the object a shared_ptr of the registry and of the
\* connection points to.
UserSession(now) ==
    [username_ |-> "", state_ |-> "CONNECTING", last_activity_ |-> now,
     active_documents_ |-> {}]

\* No object yet.
NoUserSession ==
    [username_ |-> "", state_ |-> "NONE", last_activity_ |-> 0,
     active_documents_ |-> {}]

updateActivity(session, now) == [session EXCEPT !.last_activity_ = now]

setUsername(session, username, now) ==
    updateActivity([session EXCEPT !.username_ = username], now)

setState(session, state, now) ==
    updateActivity([session EXCEPT !.state_ = state], now)

\* duration_cast<seconds> cuts the idle time down to whole seconds.
getIdleSeconds(session, now) ==
    (now - session.last_activity_) \div TicksPerSecond

addDocument(session, documentId, now) ==
    IF documentId \in session.active_documents_ THEN session
    ELSE updateActivity([session EXCEPT !.active_documents_ = @ \cup {documentId}], now)

removeDocument(session, documentId, now) ==
    IF documentId \notin session.active_documents_ THEN session
    ELSE updateActivity([session EXCEPT !.active_documents_ = @ \ {documentId}], now)

\* SessionHandler::createSession; the accepted socket is open.
createSession(r, sessionId) ==
    [r EXCEPT !.session[sessionId] = UserSession(r.now),
              !.is_open[sessionId] = TRUE,
              !.sessions_ = @ \cup {sessionId},
              !.sockets_ = @ \cup {sessionId}]

\* authenticateSession as it would be without looking the session up.
authenticateSession_NoFind(r, sessionId, username) ==
    [r |-> [r EXCEPT !.session[sessionId] =
                         setState(setUsername(@, username, r.now),
                                  "AUTHENTICATED", r.now),
                     !.username_to_session_ = MapPut(@, username, sessionId)],
     result |-> TRUE]

\* SessionHandler::authenticateSession, under mutex_.
authenticateSession(r, sessionId, username) ==
    IF sessionId \in r.sessions_
    THEN [r |-> [r EXCEPT !.session[sessionId] =
                              setState(setUsername(@, username, r.now),
                                       "AUTHENTICATED", r.now),
                          !.username_to_session_ = MapPut(@, username, sessionId)],
          result |-> TRUE]
    ELSE [r |-> r, result |-> FALSE]

getSession(r, sessionId) ==
    IF sessionId \in r.sessions_ THEN sessionId ELSE NullSession

getSessionByUsername(r, username) ==
    IF username \in DOMAIN r.username_to_session_
       /\ r.username_to_session_[username] \in r.sessions_
    THEN r.username_to_session_[username]
    ELSE NullSession

\* SocketGuard::close: shutdown and close of an open socket.
SocketGuardClose(r, sessionId) ==
    IF r.is_open[sessionId]
    THEN [r EXCEPT !.is_open[sessionId] = FALSE, !.shutdowns[sessionId] = @ + 1]
    ELSE r

\* closeSession as it would be if it left the socket guard in sockets_.
closeSession_KeepSocket(r, sessionId) ==
    IF sessionId \notin r.sessions_ THEN [r |-> r, result |-> FALSE]
    ELSE LET session == r.session[sessionId]
             released == IF session.state_ = "AUTHENTICATED"
                         THEN MapErase(r.username_to_session_, session.username_)
                         ELSE r.username_to_session_
         IN [r |-> [r EXCEPT
                        !.username_to_session_ = released,
                        !.session[sessionId] = setState(@, "DISCONNECTED", r.now),
                        !.sessions_ = @ \ {sessionId}],
             result |-> TRUE]

\* SessionHandler::closeSession, under mutex_. Erasing the guard from
\* sockets_ drops its last reference, and ~SocketGuard closes the socket.
closeSession(r, sessionId) ==
    IF sessionId \notin r.sessions_ THEN [r |-> r, result |-> FALSE]
    ELSE LET session == r.session[sessionId]
             released == IF session.state_ = "AUTHENTICATED"
                         THEN MapErase(r.username_to_session_, session.username_)
                         ELSE r.username_to_session_
             erased == IF sessionId \in r.sockets_
                       THEN SocketGuardClose(r, sessionId) ELSE r
         IN [r |-> [erased EXCEPT
                        !.username_to_session_ = released,
                        !.session[sessionId] = setState(@, "DISCONNECTED", r.now),
                        !.sockets_ = @ \ {sessionId},
                        !.sessions_ = @ \ {sessionId}],
             result |-> TRUE]

\* getUsersOnDocument as it would be without the test of the state.
getUsersOnDocument_AnyState(r, documentId) ==
    {r.session[s].username_ :
        s \in {t \in r.sessions_ : documentId \in r.session[t].active_documents_}}

\* SessionHandler::getUsersOnDocument: the names in the vector it returns.
getUsersOnDocument(r, documentId) ==
    {r.session[s].username_ :
        s \in {t \in r.sessions_ :
                  /\ documentId \in r.session[t].active_documents_
                  /\ r.session[t].state_ = "AUTHENTICATED"}}

isUsernameAvailable(r, username) ==
    username \notin DOMAIN r.username_to_session_

\* The first block of cleanupIdleSessions: the sessions it will close.
sessionsToClose(r, maxIdleSeconds) ==
    {s \in r.sessions_ : getIdleSeconds(r.session[s], r.now) > maxIdleSeconds}

\* The record of a call that has returned.
Call(kind, sessionId, username, result, wasClosed) ==
    [kind |-> kind, sid |-> sessionId, username |-> username,
     result |-> result, wasClosed |-> wasClosed]

NoCleanup == [pc |-> "idle"]

\* Server::handleNewConnection: a session and a Connection for the socket;
\* the connection starts reading.
SessionAccept(s) ==
    /\ reg.cleanup.pc = "idle"
    /\ reg.conn[s].pc = "none"
    /\ \A t \in Sids : t < s => reg.conn[t].pc # "none"
    /\ reg' = [createSession(reg, s) EXCEPT
                  !.conn[s] = [pc |-> "reading", username |-> ""],
                  !.last = Call("createSession", s, "", TRUE, FALSE)]
    /\ UNCHANGED <<sysVars, ot, pool, ed, cm, acc, srv, tp, doc>>

\* A read completes with data out of D and a worker runs processData up to
\* its return or, for a login with an available name, up to the return of
\* isUsernameAvailable. violations counts the document requests of a
\* session that is not authenticated.
SessionReceive(s, D) ==
    /\ reg.conn[s].pc = "reading"
    /\ reg.is_open[s]
    /\ \E data \in D :
        LET unauthenticated == reg.session[s].state_ # "AUTHENTICATED"
            violation == data \in DocumentData /\ unauthenticated
            r0 == [reg EXCEPT !.session[s] = updateActivity(@, reg.now),
                              !.violations[s] = IF violation THEN @ + 1 ELSE @]
        IN /\ violation => reg.violations[s] < MaxRequests
           /\ reg' =
                IF Substr(data, 0, 6) = "LOGIN:"
                THEN LET username == SubstrFrom(data, 6)
                     IN IF ~isUsernameAvailable(r0, username)
                        THEN [r0 EXCEPT !.last =
                                 Call("LOGIN", s, username,
                                      "ERROR: Username already in use", FALSE)]
                        ELSE [r0 EXCEPT !.conn[s] =
                                 [pc |-> "checked", username |-> username]]
                ELSE IF Substr(data, 0, 11) = "OPEN_DOCUMENT:"
                THEN IF unauthenticated
                     THEN [r0 EXCEPT !.last =
                              Call("OPEN_DOCUMENT", s, "",
                                   "ERROR: Not authenticated", FALSE)]
                     ELSE [r0 EXCEPT
                              !.session[s] = addDocument(@, SubstrFrom(data, 11), reg.now),
                              !.last = Call("OPEN_DOCUMENT", s, "", "SUCCESS", FALSE)]
                ELSE IF Substr(data, 0, 12) = "CLOSE_DOCUMENT:"
                THEN IF unauthenticated
                     THEN [r0 EXCEPT !.last =
                              Call("CLOSE_DOCUMENT", s, "",
                                   "ERROR: Not authenticated", FALSE)]
                     ELSE [r0 EXCEPT
                              !.session[s] = removeDocument(@, SubstrFrom(data, 12), reg.now),
                              !.last = Call("CLOSE_DOCUMENT", s, "", "SUCCESS", FALSE)]
                ELSE [r0 EXCEPT !.last =
                         Call("data", s, "", "Server received", FALSE)]
    /\ UNCHANGED <<sysVars, ot, pool, ed, cm, acc, srv, tp, doc>>

\* The rest of processData for a login: authenticateSession, the response,
\* and the next read. bound collects the names the session was bound to.
SessionLoginBind(s) ==
    /\ reg.conn[s].pc = "checked"
    /\ LET username == reg.conn[s].username
           a == authenticateSession(reg, s, username)
       IN reg' = [a.r EXCEPT
                     !.conn[s] = [pc |-> "reading", username |-> ""],
                     !.bound[s] = IF a.result THEN @ \cup {username} ELSE @,
                     !.last = Call("LOGIN", s, username,
                                   IF a.result THEN "SUCCESS"
                                   ELSE "ERROR: Authentication failed", FALSE)]
    /\ UNCHANGED <<sysVars, ot, pool, ed, cm, acc, srv, tp, doc>>

\* Connection::handleError: the pending read ends with an error (the peer
\* went away, or the socket was closed under it) and the session is closed.
\* closed collects the sessions a closeSession call has closed.
SessionError(s) ==
    /\ reg.cleanup.pc = "idle"
    /\ reg.conn[s].pc = "reading"
    /\ LET c == closeSession(reg, s)
       IN reg' = [c.r EXCEPT
                     !.conn[s] = [pc |-> "dead", username |-> ""],
                     !.closed = IF c.result THEN @ \cup {s} ELSE @,
                     !.last = Call("closeSession", s, "", c.result,
                                   s \in reg.closed)]
    /\ UNCHANGED <<sysVars, ot, pool, ed, cm, acc, srv, tp, doc>>

\* The holder of a session object adds a document to it or removes one.
SessionEditDocuments(s) ==
    /\ reg.conn[s].pc # "none"
    /\ \E d \in Documents :
        \/ /\ d \notin reg.session[s].active_documents_
           /\ reg' = [reg EXCEPT !.session[s] = addDocument(@, d, reg.now)]
        \/ /\ d \in reg.session[s].active_documents_
           /\ reg' = [reg EXCEPT !.session[s] = removeDocument(@, d, reg.now)]
    /\ UNCHANGED <<sysVars, ot, pool, ed, cm, acc, srv, tp, doc>>

\* Time passes.
Tick ==
    /\ reg.now < MaxTime
    /\ reg' = [reg EXCEPT !.now = @ + 1]
    /\ UNCHANGED <<sysVars, ot, pool, ed, cm, acc, srv, tp, doc>>

\* What cleanupIdleSessions returns: the size of sessionsToClose. idleAt is
\* each session's idle time in ticks when the call began (-1: not in
\* sessions_), did the sessions its closeSession calls closed, idleAtClose
\* the idle seconds of each of those when it was closed.
CleanupReturn(r, cleanup) ==
    [r EXCEPT !.cleanup = NoCleanup,
              !.last = [kind |-> "cleanupIdleSessions",
                        maxIdleSeconds |-> cleanup.maxIdleSeconds,
                        idleAt |-> cleanup.idleAt,
                        did |-> cleanup.did,
                        idleAtClose |-> cleanup.idleAtClose,
                        result |-> cleanup.n]]

\* The cleanup timer fires: cleanupIdleSessions collects, under mutex_, the
\* sessions to close.
CleanupCollect ==
    /\ reg.cleanup.pc = "idle"
    /\ \E maxIdleSeconds \in IdleLimits :
        LET toClose == sessionsToClose(reg, maxIdleSeconds)
            cleanup == [pc |-> "closing", toClose |-> toClose,
                        n |-> Cardinality(toClose),
                        maxIdleSeconds |-> maxIdleSeconds,
                        idleAt |-> [s \in Sids |->
                                       IF s \in reg.sessions_
                                       THEN reg.now - reg.session[s].last_activity_
                                       ELSE -1],
                        did |-> {},
                        idleAtClose |-> [s \in Sids |-> -1]]
        IN reg' = IF toClose = {} THEN CleanupReturn(reg, cleanup)
                  ELSE [reg EXCEPT !.cleanup = cleanup]
    /\ UNCHANGED <<sysVars, ot, pool, ed, cm, acc, srv, tp, doc>>

\* cleanupIdleSessions closes the next collected session, and returns after
\* the last one.
CleanupClose ==
    /\ reg.cleanup.pc = "closing"
    /\ LET s == CHOOSE t \in reg.cleanup.toClose :
                    \A u \in reg.cleanup.toClose : t <= u
           c == closeSession(reg, s)
           cleanup == [reg.cleanup EXCEPT
                          !.toClose = @ \ {s},
                          !.did = IF c.result THEN @ \cup {s} ELSE @,
                          !.idleAtClose[s] =
                              IF c.result
                              THEN getIdleSeconds(reg.session[s], reg.now)
                              ELSE @]
           r1 == [c.r EXCEPT !.closed = IF c.result THEN @ \cup {s} ELSE @,
                             !.cleanup = cleanup]
       IN reg' = IF cleanup.toClose = {} THEN CleanupReturn(r1, cleanup) ELSE r1
    /\ UNCHANGED <<sysVars, ot, pool, ed, cm, acc, srv, tp, doc>>

InitSession ==
    /\ SysInit
    /\ ot = OtIdle
    /\ pool = PoolIdle
    /\ ed = EdIdle
    /\ cm = CmIdle
    /\ acc = AccIdle
    /\ srv = SrvIdle
    /\ tp = TpIdle
    /\ doc = DocIdle
    /\ reg = [phase |-> "on",
              now |-> 0,
              sessions_ |-> {},
              sockets_ |-> {},
              username_to_session_ |-> <<>>,
              session |-> [s \in Sids |-> NoUserSession],
              is_open |-> [s \in Sids |-> FALSE],
              shutdowns |-> [s \in Sids |-> 0],
              conn |-> [s \in Sids |-> [pc |-> "none", username |-> ""]],
              cleanup |-> NoCleanup,
              violations |-> [s \in Sids |-> 0],
              closed |-> {},
              bound |-> [s \in Sids |-> {}],
              last |-> Call("none", 0, "", TRUE, FALSE)]

\* The registry under logins, errors and document changes.
NextSession ==
    \/ \E s \in Sids : SessionAccept(s)
    \/ \E s \in Sids : SessionReceive(s, LoginData \cup PlainData)
    \/ \E s \in Sids : SessionLoginBind(s)
    \/ \E s \in Sids : SessionError(s)
    \/ \E s \in Sids : SessionEditDocuments(s)

SpecSession == InitSession /\ [][NextSession]_vars

\* The registry under logins, errors and idle cleanup as time passes.
NextCleanup ==
    \/ \E s \in Sids : SessionAccept(s)
    \/ \E s \in Sids : SessionReceive(s, {"LOGIN:u"} \cup PlainData)
    \/ \E s \in Sids : SessionLoginBind(s)
    \/ \E s \in Sids : SessionError(s)
    \/ Tick
    \/ CleanupCollect
    \/ CleanupClose

SpecCleanup == InitSession /\ [][NextCleanup]_vars

\* The connections of the server under logins and document requests.
NextRequests ==
    \/ \E s \in Sids : SessionAccept(s)
    \/ \E s \in Sids : SessionReceive(s, LoginData \cup DocumentData)
    \/ \E s \in Sids : SessionLoginBind(s)
    \/ \E s \in Sids : SessionError(s)

SpecRequests == InitSession /\ [][NextRequests]_vars

\* ------------------------------------------------------------------------
\* ClientManager of the editor client (client_manager.h)
\* ------------------------------------------------------------------------

\* The threads of the client that call sendMessage.
Senders == 1 .. 2

SenderIdle == [pc |-> "idle", message |-> 0]

\* sendMessage on thread t, up to the test of connected_: not connected, the
\* thread goes on to queue the message; connected, the message is handed to
\* the channel and the call returns.
SendMessage(t) ==
    /\ cm.phase = "on"
    /\ cm.sender[t].pc = "idle"
    /\ cm.nmsg < MaxSends
    /\ LET message == cm.nmsg + 1 IN
       cm' = IF ~cm.connected_
             THEN [cm EXCEPT !.nmsg = message,
                             !.sender[t] = [pc |-> "queueing", message |-> message]]
             ELSE [cm EXCEPT !.nmsg = message,
                             !.sent = IF cm.channel_ THEN Append(@, message) ELSE @]
    /\ UNCHANGED <<sysVars, ot, pool, ed, reg, acc, srv, tp, doc>>

\* The rest of sendMessage for a client that was not connected: the message
\* is pushed to pendingMessages_ under pendingMessagesMutex_.
SendMessageQueue(t) ==
    /\ cm.sender[t].pc = "queueing"
    /\ cm' = [cm EXCEPT !.pendingMessages_ = Append(@, cm.sender[t].message),
                        !.sender[t] = SenderIdle]
    /\ UNCHANGED <<sysVars, ot, pool, ed, reg, acc, srv, tp, doc>>

\* The connection handler on the io thread, up to connected_ = true.
ConnectionHandler ==
    /\ cm.phase = "on"
    /\ cm.handler = "waiting"
    /\ cm' = [cm EXCEPT !.channel_ = TRUE, !.connected_ = TRUE,
                        !.handler = "connected"]
    /\ UNCHANGED <<sysVars, ot, pool, ed, reg, acc, srv, tp, doc>>

\* sendPendingMessages, the last call of the connection handler: under
\* pendingMessagesMutex_ the queue is handed to the channel.
sendPendingMessages ==
    /\ cm.phase = "on"
    /\ cm.handler = "connected"
    /\ cm' = [cm EXCEPT
                 !.sent = IF cm.connected_ /\ cm.channel_
                          THEN @ \o cm.pendingMessages_ ELSE @,
                 !.pendingMessages_ = IF cm.connected_ /\ cm.channel_
                                      THEN <<>> ELSE @,
                 !.handler = "done"]
    /\ UNCHANGED <<sysVars, ot, pool, ed, reg, acc, srv, tp, doc>>

\* The error handler of the TcpClient on the io thread.
ClientError ==
    /\ cm.phase = "on"
    /\ cm.handler = "done"
    /\ cm.connected_
    /\ cm' = [cm EXCEPT !.connected_ = FALSE]
    /\ UNCHANGED <<sysVars, ot, pool, ed, reg, acc, srv, tp, doc>>

\* A ClientManager whose connect has started the io thread.
InitClient ==
    /\ SysInit
    /\ acc = AccIdle
    /\ srv = SrvIdle
    /\ tp = TpIdle
    /\ doc = DocIdle
    /\ ot = OtIdle
    /\ pool = PoolIdle
    /\ ed = EdIdle
    /\ reg = RegIdle
    /\ cm = [phase |-> "on",
             connected_ |-> FALSE,
             channel_ |-> FALSE,
             pendingMessages_ |-> <<>>,
             sent |-> <<>>,
             handler |-> "waiting",
             sender |-> [t \in Senders |-> SenderIdle],
             nmsg |-> 0]

NextClient ==
    \/ \E t \in Senders : SendMessage(t)
    \/ \E t \in Senders : SendMessageQueue(t)
    \/ ConnectionHandler
    \/ sendPendingMessages
    \/ ClientError

SpecClient == InitClient /\ [][NextClient]_vars

\* ------------------------------------------------------------------------
\* Threads of the server on one session's fields (server.h, part_012)
\* ------------------------------------------------------------------------
\*
\* Each call is the sequence of its lock and unlock of SessionHandler::mutex_
\* and of its reads and writes of one UserSession's fields, in the order of
\* the code. A read or write takes time: it begins and it ends.

\* A worker thread of the pool, running the connection's processData, and
\* the thread of the io_context, running the cleanup timer and handleError.
AccThreads == {"worker", "io"}

Lock == [op |-> "lock"]
Unlock == [op |-> "unlock"]
Read(field) == [op |-> "access", field |-> field, write |-> FALSE]
Write(field) == [op |-> "access", field |-> field, write |-> TRUE]
NoAccess == [op |-> "none"]

\* UserSession::updateActivity, setUsername, setState; getState, getUsername
\* and getIdleSeconds are one read each.
updateActivityAccess == <<Write("last_activity_")>>
setUsernameAccess == <<Write("username_")>> \o updateActivityAccess
setStateAccess == <<Write("state_")>> \o updateActivityAccess

\* SessionHandler::authenticateSession of a session that is found.
authenticateSessionAccess ==
    <<Lock>> \o setUsernameAccess \o setStateAccess \o <<Unlock>>

\* SessionHandler::closeSession of a session that is found; the username is
\* read if the state is AUTHENTICATED.
closeSessionAccess(authenticated) ==
    <<Lock, Read("state_")>>
             \o (IF authenticated THEN <<Read("username_")>> ELSE <<>>)
             \o setStateAccess \o <<Unlock>>

\* SessionHandler::cleanupIdleSessions: the scan, and the close of the
\* session if the scan collected it.
cleanupIdleSessionsAccess(collected, authenticated) ==
    <<Lock, Read("last_activity_"), Unlock>>
             \o (IF collected THEN closeSessionAccess(authenticated) ELSE <<>>)

\* Connection::processData of a LOGIN message for a free username
\* (isUsernameAvailable locks and touches no session), and of a message
\* that is no command.
processDataLoginAccess ==
    updateActivityAccess \o <<Lock, Unlock>> \o authenticateSessionAccess
processDataPlainAccess == updateActivityAccess \o <<Read("username_")>>

\* What each thread may call.
AccCalls(t) ==
    IF t = "worker"
    THEN {processDataLoginAccess, processDataPlainAccess}
    ELSE {cleanupIdleSessionsAccess(c, a) : c \in BOOLEAN, a \in BOOLEAN}
         \cup {closeSessionAccess(a) : a \in BOOLEAN}

\* Thread t begins a call.
AccCall(t) ==
    /\ acc.phase = "on"
    /\ acc.todo[t] = <<>>
    /\ acc.at[t] = NoAccess
    /\ acc.calls[t] < MaxCalls
    /\ \E call \in AccCalls(t) :
           acc' = [acc EXCEPT !.todo[t] = call, !.calls[t] = @ + 1]
    /\ UNCHANGED <<sysVars, ot, pool, ed, reg, cm, srv, tp, doc>>

\* std::lock_guard on mutex_: the thread goes on once the mutex is free.
AccLock(t) ==
    /\ acc.phase = "on"
    /\ acc.at[t] = NoAccess
    /\ acc.todo[t] # <<>>
    /\ Head(acc.todo[t]) = Lock
    /\ acc.mutex_ = "free"
    /\ acc' = [acc EXCEPT !.mutex_ = t, !.todo[t] = Tail(@)]
    /\ UNCHANGED <<sysVars, ot, pool, ed, reg, cm, srv, tp, doc>>

\* The lock_guard goes out of scope.
AccUnlock(t) ==
    /\ acc.phase = "on"
    /\ acc.at[t] = NoAccess
    /\ acc.todo[t] # <<>>
    /\ Head(acc.todo[t]) = Unlock
    /\ acc' = [acc EXCEPT !.mutex_ = "free", !.todo[t] = Tail(@)]
    /\ UNCHANGED <<sysVars, ot, pool, ed, reg, cm, srv, tp, doc>>

\* The thread begins its next read or write of a field.
AccBegin(t) ==
    /\ acc.phase = "on"
    /\ acc.at[t] = NoAccess
    /\ acc.todo[t] # <<>>
    /\ Head(acc.todo[t]).op = "access"
    /\ acc' = [acc EXCEPT !.at[t] = Head(acc.todo[t]), !.todo[t] = Tail(@)]
    /\ UNCHANGED <<sysVars, ot, pool, ed, reg, cm, srv, tp, doc>>

\* The read or write is done.
AccEnd(t) ==
    /\ acc.phase = "on"
    /\ acc.at[t] # NoAccess
    /\ acc' = [acc EXCEPT !.at[t] = NoAccess]
    /\ UNCHANGED <<sysVars, ot, pool, ed, reg, cm, srv, tp, doc>>

InitAccess ==
    /\ SysInit
    /\ ot = OtIdle
    /\ pool = PoolIdle
    /\ ed = EdIdle
    /\ reg = RegIdle
    /\ cm = CmIdle
    /\ srv = SrvIdle
    /\ tp = TpIdle
    /\ doc = DocIdle
    /\ acc = [phase |-> "on",
              mutex_ |-> "free",
              todo |-> [t \in AccThreads |-> <<>>],
              at |-> [t \in AccThreads |-> NoAccess],
              calls |-> [t \in AccThreads |-> 0]]

NextAccess ==
    \E t \in AccThreads :
        AccCall(t) \/ AccLock(t) \/ AccUnlock(t) \/ AccBegin(t) \/ AccEnd(t)

SpecAccess == InitAccess /\ [][NextAccess]_vars

\* ------------------------------------------------------------------------
\* Server: start-up, signals and stop (server.h)
\* ------------------------------------------------------------------------
\*
\*   running_         the flag stop() clears
\*   acceptor_        TRUE while the acceptor is open
\*   accepting        an async_accept is outstanding
\*   cleanup_timer_   an async_wait on the cleanup timer is outstanding
\*   signals_         async_wait operations outstanding on the signal set
\*   io               completion handlers ready to run, in order
\*   sessions_        the sessions of the SessionHandler
\*   is_open          the sockets that are open
\*   nconn            connections made so far
\*   signalled        history: a signal was delivered or simulated

Handler(kind, error) == [kind |-> kind, error |-> error]

\* Server::stop: clear running_, cancel the timer, close the acceptor. The
\* cancelled operations complete with operation_aborted.
stop(s) ==
    IF ~s.running_ THEN s
    ELSE [s EXCEPT
            !.running_ = FALSE,
            !.cleanup_timer_ = FALSE,
            !.acceptor_ = FALSE,
            !.accepting = FALSE,
            !.io = @ \o (IF s.cleanup_timer_ THEN <<Handler("timer", TRUE)>> ELSE <<>>)
                     \o (IF s.accepting THEN <<Handler("accept", TRUE)>> ELSE <<>>)]

\* A client connects: the outstanding async_accept completes.
ClientConnects ==
    /\ srv.phase = "on"
    /\ srv.acceptor_
    /\ srv.accepting
    /\ srv.nconn < MaxSessions
    /\ srv' = [srv EXCEPT !.accepting = FALSE,
                          !.nconn = @ + 1,
                          !.io = Append(@, Handler("accept", FALSE))]
    /\ UNCHANGED <<sysVars, ot, pool, ed, reg, cm, acc, tp, doc>>

\* The cleanup interval elapses.
TimerExpires ==
    /\ srv.phase = "on"
    /\ srv.cleanup_timer_
    /\ srv' = [srv EXCEPT !.cleanup_timer_ = FALSE,
                          !.io = Append(@, Handler("timer", FALSE))]
    /\ UNCHANGED <<sysVars, ot, pool, ed, reg, cm, acc, tp, doc>>

\* SIGINT or SIGTERM is delivered to the process: every wait outstanding
\* on the signal set completes without error.
SignalDelivered ==
    /\ srv.phase = "on"
    /\ ~srv.signalled
    /\ srv' = [srv EXCEPT
                 !.signalled = TRUE,
                 !.signals_ = 0,
                 !.io = @ \o [i \in 1 .. srv.signals_ |-> Handler("signal", FALSE)]]
    /\ UNCHANGED <<sysVars, ot, pool, ed, reg, cm, acc, tp, doc>>

\* Server::simulateSignal: one more async_wait on the signal set, then
\* signals_.cancel(), which completes every outstanding wait with
\* operation_aborted.
simulateSignal ==
    /\ srv.phase = "on"
    /\ ~srv.signalled
    /\ srv' = [srv EXCEPT
                 !.signalled = TRUE,
                 !.signals_ = 0,
                 !.io = @ \o [i \in 1 .. srv.signals_ + 1 |-> Handler("signal", TRUE)]]
    /\ UNCHANGED <<sysVars, ot, pool, ed, reg, cm, acc, tp, doc>>

\* Server::stop called by the owner of the server.
ServerStop ==
    /\ srv.phase = "on"
    /\ srv.running_
    /\ srv' = stop(srv)
    /\ UNCHANGED <<sysVars, ot, pool, ed, reg, cm, acc, tp, doc>>

\* The io_context runs the next ready handler: the accept handler of
\* startAccept (handleNewConnection and the next startAccept), the timer
\* handler of startSessionCleanup (cleanupIdleSessions closes the sessions
\* that are idle, then the timer is armed again), or a signal handler.
ServerIoRun ==
    /\ srv.phase = "on"
    /\ srv.io # <<>>
    /\ LET h == Head(srv.io)
           rest == [srv EXCEPT !.io = Tail(@)]
       IN CASE h.kind = "accept" ->
                 srv' = IF ~h.error /\ rest.running_
                        THEN [rest EXCEPT !.sessions_ = @ \cup {rest.nconn},
                                          !.is_open = @ \cup {rest.nconn},
                                          !.accepting = TRUE]
                        ELSE IF h.error /\ rest.running_
                        THEN [rest EXCEPT !.accepting = TRUE]
                        ELSE rest
            [] h.kind = "timer" ->
                 IF ~h.error /\ rest.running_
                 THEN \E idle \in SUBSET rest.sessions_ :
                          srv' = [rest EXCEPT !.sessions_ = @ \ idle,
                                              !.is_open = @ \ idle,
                                              !.cleanup_timer_ = TRUE]
                 ELSE srv' = rest
            [] h.kind = "signal" ->
                 srv' = IF ~h.error THEN stop(rest) ELSE rest
    /\ UNCHANGED <<sysVars, ot, pool, ed, reg, cm, acc, tp, doc>>

\* The peer of a session disconnects: Connection::handleError closes the
\* session and its socket.
ConnectionClosed(c) ==
    /\ srv.phase = "on"
    /\ c \in srv.sessions_
    /\ srv' = [srv EXCEPT !.sessions_ = @ \ {c}, !.is_open = @ \ {c}]
    /\ UNCHANGED <<sysVars, ot, pool, ed, reg, cm, acc, tp, doc>>

\* The state the Server constructor leaves: running, one wait on the
\* signal set, the cleanup timer armed and one async_accept outstanding.
InitServer ==
    /\ SysInit
    /\ ot = OtIdle
    /\ pool = PoolIdle
    /\ ed = EdIdle
    /\ reg = RegIdle
    /\ cm = CmIdle
    /\ acc = AccIdle
    /\ tp = TpIdle
    /\ doc = DocIdle
    /\ srv = [phase |-> "on",
              running_ |-> TRUE,
              acceptor_ |-> TRUE,
              accepting |-> TRUE,
              cleanup_timer_ |-> TRUE,
              signals_ |-> 1,
              io |-> <<>>,
              sessions_ |-> {},
              is_open |-> {},
              nconn |-> 0,
              signalled |-> FALSE]

NextServer ==
    \/ ClientConnects
    \/ TimerExpires
    \/ SignalDelivered
    \/ simulateSignal
    \/ ServerStop
    \/ ServerIoRun
    \/ \E c \in Sids : ConnectionClosed(c)

\* The io_context thread runs every handler that is ready.
SpecServer == InitServer /\ [][NextServer]_vars /\ WF_vars(ServerIoRun)

\* ------------------------------------------------------------------------
\* ThreadPool from construction to destruction (server.h)
\* ------------------------------------------------------------------------
\*
\*   tasks_        the queue, guarded by queue_mutex_
\*   stop_         the flag the destructor sets
\*   worker[w]     pc "waiting" (in condition_.wait), "running" (in task())
\*                 or "exited" (returned from the loop), and the task
\*   dtor          "none", "joining" (stop_ set, joining the workers) or
\*                 "returned"
\*   ntask         tasks passed to enqueue so far
\*   accepted      history: the tasks enqueue put in the queue
\*   runs[k]       history: how many times task k was run to its end
\*   queuedAtStop  history: the tasks that were in the queue when the
\*                 destructor set stop_

TaskIds == 1 .. MaxTasks

\* Variant of the worker's exit test that does not look at the queue.
WorkerReturns_OnStop(p) == p.stop_

\* The worker's test after condition_.wait: return from the loop.
WorkerReturns(p) == p.stop_ /\ p.tasks_ = <<>>

\* ThreadPool::enqueue under queue_mutex_: throws on a stopped pool, else
\* puts the task in the queue.
ThreadPoolEnqueue ==
    /\ tp.phase = "on"
    /\ tp.dtor # "returned"
    /\ tp.ntask < MaxTasks
    /\ LET task == tp.ntask + 1 IN
       tp' = IF tp.stop_
             THEN [tp EXCEPT !.ntask = task]
             ELSE [tp EXCEPT !.ntask = task,
                             !.tasks_ = Append(@, task),
                             !.accepted = @ \cup {task}]
    /\ UNCHANGED <<sysVars, ot, pool, ed, reg, cm, acc, srv, doc>>

\* A worker whose wait is over (stop_ or a task in the queue) and that
\* does not return takes the front task and releases queue_mutex_.
ThreadPoolTake(w) ==
    /\ tp.phase = "on"
    /\ tp.worker[w].pc = "waiting"
    /\ tp.stop_ \/ tp.tasks_ # <<>>
    /\ ~WorkerReturns(tp)
    /\ tp.tasks_ # <<>>
    /\ tp' = [tp EXCEPT !.worker[w] = [pc |-> "running", task |-> Head(tp.tasks_)],
                        !.tasks_ = Tail(@)]
    /\ UNCHANGED <<sysVars, ot, pool, ed, reg, cm, acc, srv, doc>>

\* task() returns; the worker goes back to the wait.
ThreadPoolRun(w) ==
    /\ tp.phase = "on"
    /\ tp.worker[w].pc = "running"
    /\ tp' = [tp EXCEPT !.runs[tp.worker[w].task] = @ + 1,
                        !.worker[w] = [pc |-> "waiting", task |-> 0]]
    /\ UNCHANGED <<sysVars, ot, pool, ed, reg, cm, acc, srv, doc>>

\* A worker whose wait is over returns from its loop.
ThreadPoolExit(w) ==
    /\ tp.phase = "on"
    /\ tp.worker[w].pc = "waiting"
    /\ tp.stop_ \/ tp.tasks_ # <<>>
    /\ WorkerReturns(tp)
    /\ tp' = [tp EXCEPT !.worker[w] = [pc |-> "exited", task |-> 0]]
    /\ UNCHANGED <<sysVars, ot, pool, ed, reg, cm, acc, srv, doc>>

\* ~ThreadPool: stop_ = true under queue_mutex_, then notify_all.
ThreadPoolDestroy ==
    /\ tp.phase = "on"
    /\ tp.dtor = "none"
    /\ tp' = [tp EXCEPT !.stop_ = TRUE,
                        !.dtor = "joining",
                        !.queuedAtStop = {tp.tasks_[i] : i \in 1 .. Len(tp.tasks_)}]
    /\ UNCHANGED <<sysVars, ot, pool, ed, reg, cm, acc, srv, doc>>

\* ~ThreadPool: the last join returns, and so does the destructor.
ThreadPoolJoin ==
    /\ tp.phase = "on"
    /\ tp.dtor = "joining"
    /\ \A w \in Workers : tp.worker[w].pc = "exited"
    /\ tp' = [tp EXCEPT !.dtor = "returned"]
    /\ UNCHANGED <<sysVars, ot, pool, ed, reg, cm, acc, srv, doc>>

InitThreadPool ==
    /\ SysInit
    /\ ot = OtIdle
    /\ pool = PoolIdle
    /\ ed = EdIdle
    /\ reg = RegIdle
    /\ cm = CmIdle
    /\ acc = AccIdle
    /\ srv = SrvIdle
    /\ doc = DocIdle
    /\ tp = [phase |-> "on",
             tasks_ |-> <<>>,
             stop_ |-> FALSE,
             worker |-> [w \in Workers |-> [pc |-> "waiting", task |-> 0]],
             dtor |-> "none",
             ntask |-> 0,
             accepted |-> {},
             runs |-> [k \in TaskIds |-> 0],
             queuedAtStop |-> {}]

NextThreadPool ==
    \/ ThreadPoolEnqueue
    \/ \E w \in Workers : ThreadPoolTake(w)
    \/ \E w \in Workers : ThreadPoolRun(w)
    \/ \E w \in Workers : ThreadPoolExit(w)
    \/ ThreadPoolDestroy
    \/ ThreadPoolJoin

SpecThreadPool == InitThreadPool /\ [][NextThreadPool]_vars

\* ------------------------------------------------------------------------
\* Line-based Document and its mutex (part_009)
\* ------------------------------------------------------------------------
\*
\* One thread calls a Document of one line.
\*
\*   lineLength         lines_[0].length()
\*   operationHistory_  the types of the recorded operations
\*   redoStack_         the types of the undone operations
\*   mutex_             TRUE while the thread holds the std::mutex
\*   pc                 "idle" (no call), "locking" (a lock_guard is being
\*                      constructed on mutex_ while the thread holds it),
\*                      "deadlocked"
\*   call, nested       the member function called, and the member function
\*                      whose lock_guard is being constructed
\*   result             what the last call returned

\* A member function returns: its lock_guard releases mutex_.
Return(d, call, result) ==
    [d EXCEPT !.mutex_ = FALSE, !.pc = "idle", !.call = call,
              !.nested = "", !.result = result]

\* A member function that holds mutex_ calls a member function that
\* begins with a lock_guard on mutex_.
LockAgain(d, call, nested) ==
    [d EXCEPT !.mutex_ = TRUE, !.pc = "locking", !.call = call,
              !.nested = nested, !.result = "none"]

\* Document::recordOperation.
DocRecord(d, type) ==
    [d EXCEPT !.operationHistory_ = Append(@, type), !.redoStack_ = <<>>]

\* DocumentOperation::createInverse followed by the switch of undo: the
\* member function undo calls for the inverse of an operation.
InverseCall(type) ==
    CASE type = "INSERT" -> "deleteText"
      [] type = "DELETE" -> "insertText"
      [] type = "REPLACE" -> "replaceText"

\* The switch of redo.
RedoCall(type) ==
    CASE type = "INSERT" -> "insertText"
      [] type = "DELETE" -> "deleteText"
      [] type = "REPLACE" -> "replaceText"

\* Document::insertText of one character without newline at a column.
DocumentInsertText ==
    /\ doc.pc = "idle"
    /\ Len(doc.operationHistory_) < MaxDocOps
    /\ doc.lineLength < MaxLen
    /\ \E column \in 0 .. doc.lineLength + 1 :
          doc' = IF column > doc.lineLength
                 THEN Return(doc, "insertText", "false")
                 ELSE Return(DocRecord([doc EXCEPT !.lineLength = @ + 1], "INSERT"),
                             "insertText", "true")
    /\ UNCHANGED <<sysVars, ot, pool, ed, reg, cm, acc, srv, tp>>

\* Document::deleteText: within the line, or beyond its end, where
\* deleteMultilineText calls cursorToLinear.
DocumentDeleteText ==
    /\ doc.pc = "idle"
    /\ Len(doc.operationHistory_) < MaxDocOps
    /\ \E column \in 0 .. doc.lineLength + 1 : \E length \in 1 .. 2 :
          doc' = IF column > doc.lineLength
                 THEN Return(doc, "deleteText", "false")
                 ELSE IF column + length <= doc.lineLength
                 THEN Return(DocRecord([doc EXCEPT !.lineLength = @ - length],
                                       "DELETE"),
                             "deleteText", "true")
                 ELSE LockAgain(doc, "deleteText", "cursorToLinear")
    /\ UNCHANGED <<sysVars, ot, pool, ed, reg, cm, acc, srv, tp>>

\* Document::replaceText by one character, or by text with a newline: over
\* a range beyond the line or with a newline it calls getTextRange.
DocumentReplaceText ==
    /\ doc.pc = "idle"
    /\ Len(doc.operationHistory_) < MaxDocOps
    /\ \E column \in 0 .. doc.lineLength + 1 : \E length \in 1 .. 2 :
       \E newline \in BOOLEAN :
          doc' = IF column > doc.lineLength
                 THEN Return(doc, "replaceText", "false")
                 ELSE IF length > doc.lineLength - column \/ newline
                 THEN LockAgain(doc, "replaceText", "getTextRange")
                 ELSE Return(DocRecord([doc EXCEPT !.lineLength = @ - length + 1],
                                       "REPLACE"),
                             "replaceText", "true")
    /\ UNCHANGED <<sysVars, ot, pool, ed, reg, cm, acc, srv, tp>>

\* Document::undo: with a recorded operation it calls insertText, deleteText
\* or replaceText for the inverse.
DocumentUndo ==
    /\ doc.pc = "idle"
    /\ doc' = IF doc.operationHistory_ = <<>>
              THEN Return(doc, "undo", "false")
              ELSE LockAgain(doc, "undo",
                             InverseCall(doc.operationHistory_[Len(doc.operationHistory_)]))
    /\ UNCHANGED <<sysVars, ot, pool, ed, reg, cm, acc, srv, tp>>

\* Document::redo: with an undone operation it calls insertText, deleteText
\* or replaceText.
DocumentRedo ==
    /\ doc.pc = "idle"
    /\ doc' = IF doc.redoStack_ = <<>>
              THEN Return(doc, "redo", "false")
              ELSE LockAgain(doc, "redo",
                             RedoCall(doc.redoStack_[Len(doc.redoStack_)]))
    /\ UNCHANGED <<sysVars, ot, pool, ed, reg, cm, acc, srv, tp>>

\* Document::getTextRange(start, length): at a valid position it calls
\* cursorToLinear.
DocumentGetTextRange ==
    /\ doc.pc = "idle"
    /\ \E column \in 0 .. doc.lineLength + 1 :
          doc' = IF column > doc.lineLength
                 THEN Return(doc, "getTextRange", "")
                 ELSE LockAgain(doc, "getTextRange", "cursorToLinear")
    /\ UNCHANGED <<sysVars, ot, pool, ed, reg, cm, acc, srv, tp>>

\* A lock of a std::mutex by the thread that owns it is undefined: the
\* thread blocks for ever, or the lock throws std::system_error
\* (resource_deadlock_would_occur) and the call is left by the exception.
DocumentLockAgain ==
    /\ doc.pc = "locking"
    /\ \/ doc' = [doc EXCEPT !.pc = "deadlocked"]
       \/ doc' = Return(doc, doc.call, "system_error")
    /\ UNCHANGED <<sysVars, ot, pool, ed, reg, cm, acc, srv, tp>>

InitDocument ==
    /\ SysInit
    /\ ot = OtIdle
    /\ pool = PoolIdle
    /\ ed = EdIdle
    /\ reg = RegIdle
    /\ cm = CmIdle
    /\ acc = AccIdle
    /\ srv = SrvIdle
    /\ tp = TpIdle
    /\ \E n \in 0 .. MaxLen :
          doc = [phase |-> "on",
                 lineLength |-> n,
                 operationHistory_ |-> <<>>,
                 redoStack_ |-> <<>>,
                 mutex_ |-> FALSE,
                 pc |-> "idle",
                 call |-> "",
                 nested |-> "",
                 result |-> "none"]

NextDocument ==
    \/ DocumentInsertText
    \/ DocumentDeleteText
    \/ DocumentReplaceText
    \/ DocumentUndo
    \/ DocumentRedo
    \/ DocumentGetTextRange
    \/ DocumentLockAgain

SpecDocument == InitDocument /\ [][NextDocument]_vars

\* ------------------------------------------------------------------------
\* Properties of the editing system
\* ------------------------------------------------------------------------

Open(c) == connState[c] = "open"

\* Every submitted operation has been processed and every frame delivered.
Quiescent ==
    \A c \in Conns : Open(c) => inbox[c] = <<>> /\ nread[c] = Len(wrote[c])

\* Two operations describe the same edit.
SameEdit(a, b) ==
    /\ a.type = b.type
    /\ a.position = b.position
    /\ IF a.type = "insert" THEN a.text = b.text ELSE a.length = b.length

\* How many frames caused by processed message i were written to c.
FramesOf(c, i, kinds) ==
    Cardinality({j \in DOMAIN wrote[c] : wrote[c][j].seq = i /\ wrote[c][j].kind \in kinds})

\* C1: end-to-end convergence. Once every submitted operation has been
\* processed and every broadcast delivered, the text of every connected
\* client equals the server's text.
Convergence ==
    Quiescent => \A c \in Conns : Open(c) => manager[c].document_ = document_

\* The logged operations a submission has to be transformed against are all
\* other clients': none of the sender's own earlier submissions lies in the
\* revisions after the submission's base.
ConcurrentWithOthers(i) ==
    \A j \in 1 .. i - 1 :
        (commits[j].ok /\ commits[j].at >= commits[i].base)
            => commits[j].conn # commits[i].conn

\* C4: transform against the concurrent suffix. The operation the server
\* applies for a submission authored at base revision b, arriving when the
\* server is at revision r, is the submitted operation transformed, oldest
\* first, against the logged operations of revisions b+1 .. r.
TransformedAgainstSuffix ==
    \A i \in DOMAIN commits :
        ConcurrentWithOthers(i) =>
            SameEdit(commits[i].applied,
                     transformOperation(commits[i].op,
                                        SubSeq(operationHistory_, 1, commits[i].at),
                                        commits[i].base))

\* C5: the revision counts the operations that applied: it equals the number
\* of submissions that applied, and the controller's log, the operation
\* manager's history and the manager's revision all agree with it.
RevisionCountsApplied ==
    /\ revision_ = Cardinality({i \in DOMAIN commits : commits[i].ok})
    /\ Len(operationLog_) = revision_
    /\ Len(operationHistory_) = revision_
    /\ currentRevision_ = revision_

\* A run in which one submission applied and another was rejected.
AppliedAndRejected ==
    /\ \E i \in DOMAIN commits : commits[i].ok
    /\ \E i \in DOMAIN commits : ~commits[i].ok
    /\ revision_ = 1

\* C6: a rejected submission has no effect. Processing a message whose
\* operation is out of range for the server's text leaves text, revision and
\* both logs as they were and writes a frame to no connection.
RejectedHasNoEffect ==
    [][(Len(commits') = Len(commits) + 1 /\ ~Last(commits').ok)
        => UNCHANGED <<document_, revision_, operationLog_, operationHistory_,
                       currentRevision_, wrote>>]_vars

\* A submission was rejected while another client was connected to hear of it.
RejectedWithSubscriber ==
    \E i \in DOMAIN commits :
        /\ ~commits[i].ok
        /\ \E c \in Conns : Open(c) /\ c # commits[i].conn /\ joinSeq[c] < i

\* C7: fan-out on success. Every operation the server applied was written
\* exactly once to every client connected at the time other than its
\* originator, and never to the originator.
FanOut ==
    \A i \in DOMAIN commits : \A c \in Conns :
        (commits[i].ok /\ Open(c) /\ joinSeq[c] < i) =>
            FramesOf(c, i, {"op"}) = IF c = commits[i].conn THEN 0 ELSE 1

\* C8: every edit message is answered to its sender with exactly one reply,
\* an ACK when the operation applied and a NACK when it did not: once every
\* message has been processed and every frame delivered, each processed
\* message of a connected client has its one reply among the frames written
\* to that client.
Answered ==
    Quiescent =>
        \A i \in DOMAIN commits :
            Open(commits[i].conn) =>
                FramesOf(commits[i].conn, i,
                         {IF commits[i].ok THEN "ack" ELSE "nack"}) = 1

\* C9: broadcast order. The frames written to a connection are in the order
\* in which the server processed the operations they carry, and the client
\* reads them in that order.
BroadcastOrder ==
    \A c \in Conns : \A j, k \in DOMAIN wrote[c] :
        j < k => wrote[c][j].seq < wrote[c][k].seq

\* A client that has read two broadcast operations.
ReadTwoBroadcasts ==
    \E c \in Conns : Open(c) /\ nread[c] >= 2

\* ------------------------------------------------------------------------
\* Properties of undo and redo
\* ------------------------------------------------------------------------

\* The run so far is k local operations followed by k undo calls.
UndoneAll == ed.phase = "undoing" /\ ed.calls = ed.nLocal

\* The run so far is k local operations, k undo calls, then k redo calls.
RedoneAll == ed.phase = "redoing" /\ ed.calls = ed.nLocal

\* C11 as stated, for every k: after k local operations and no remote one,
\* k undo calls restore the original text and k redo calls after them restore
\* the text as it was after the k operations.
UndoRedoRoundTripAnyK ==
    /\ UndoneAll => ed.m.document_ = ed.origin
    /\ RedoneAll => ed.m.document_ = Last(ed.trail)

\* C11: undo/redo round trip without remote edits, for k local operations
\* with k not above max_history_size: k undo calls restore the original
\* text, and k redo calls after them restore the text after the k operations.
UndoRedoRoundTrip ==
    ed.phase # "off" /\ ed.nLocal <= ed.m.max_history_size_ =>
        /\ UndoneAll => ed.m.document_ = ed.origin
        /\ RedoneAll => ed.m.document_ = Last(ed.trail)

\* Two local operations, one of them a delete, undone and redone.
UndoneAndRedoneTwo ==
    /\ RedoneAll
    /\ ed.nLocal = 2
    /\ ed.nLocal <= ed.m.max_history_size_
    /\ \E i \in 1 .. 2 : ed.m.undo_stack_[i].type = "delete"
    /\ ed.m.document_ # ed.origin

Chars(seq) == {seq[i] : i \in DOMAIN seq}

\* The text without the characters of set cs.
Without(text, cs) ==
    LET Keep(c) == c \notin cs IN SelectSeq(text, Keep)

\* C12: undo after remote edits removes only the user's own edits. An undo
\* that succeeds on an entry whose original operation inserted characters
\* removes exactly those characters, and one whose original deleted
\* characters puts exactly those back; every other character of the text,
\* those of remote operations included, stays where it is.
UndoRemovesOwnEdits ==
    (ed.phase # "off" /\ ed.last.kind = "undo" /\ ed.last.result = "ok") =>
        LET g == Last(ed.gR)
            before == ed.last.before.document_
        IN IF g.type = "insert"
           THEN ed.m.document_ = Without(before, Chars(g.chars))
           ELSE /\ Without(ed.m.document_, Chars(g.chars)) = before
                /\ Chars(g.chars) \subseteq Chars(ed.m.document_)

\* C13: undo stays applicable. Whenever the undo stack is not empty, the
\* inverse of its top entry exists and applies to the current text.
UndoStaysApplicable ==
    (ed.phase # "off" /\ ed.m.undo_stack_ # <<>>) =>
        /\ InverseOk(Last(ed.m.undo_stack_))
        /\ ApplyOk(Inverse(Last(ed.m.undo_stack_)), ed.m.document_)

\* C14: the redo stack is empty right after a local operation that is
\* neither an undo nor a redo has been recorded.
RedoEmptyAfterLocal ==
    (ed.phase # "off" /\ ed.last.kind = "local") => ed.m.redo_stack_ = <<>>

\* A local operation recorded while the redo stack held an undone entry.
LocalAfterUndo ==
    /\ ed.phase # "off"
    /\ ed.last.kind = "local"
    /\ ed.last.before.redo_stack_ # <<>>
    /\ Len(ed.m.undo_stack_) > 0

\* C15: history is bounded. Neither stack ever holds more than
\* max_history_size entries, and a local operation recorded on a full undo
\* stack drops the oldest entry and keeps the others in order.
HistoryBounded ==
    ed.phase # "off" =>
        /\ Len(ed.m.undo_stack_) <= ed.m.max_history_size_
        /\ Len(ed.m.redo_stack_) <= ed.m.max_history_size_
        /\ (/\ ed.last.kind = "local"
            /\ Len(ed.last.before.undo_stack_) = ed.m.max_history_size_)
           => ed.m.undo_stack_ =
                  Tail(ed.last.before.undo_stack_) \o <<Clone(ed.last.op)>>

\* A local operation recorded when the undo stack was full.
RecordedOnFullStack ==
    /\ ed.phase # "off"
    /\ ed.last.kind = "local"
    /\ Len(ed.last.before.undo_stack_) = ed.m.max_history_size_
    /\ ed.last.op.type = "delete"

\* C16: undo linkage. The operation a successful undo returns is the inverse
\* of the popped entry with source LOCAL_UNDO, its related id is the id the
\* original operation was given when it was applied locally, and the popped
\* entry is on top of the redo stack.
UndoLinkage ==
    (ed.phase # "off" /\ ed.last.kind = "undo" /\ ed.last.result = "ok") =>
        LET popped == Last(ed.last.before.undo_stack_) IN
        /\ SameEdit(ed.last.op, Inverse(popped))
        /\ ed.last.op.source = "LOCAL_UNDO"
        /\ ed.last.op.relatedOperationId = Last(ed.gR).id
        /\ Last(ed.m.redo_stack_) = popped

\* An operation that changes no text.
IsNoOp(op) ==
    IF op.type = "insert" THEN op.text = <<>> ELSE op.length = 0

\* C17: after transformHistory, no entry that the remote operation has fully
\* cancelled remains on the undo or the redo stack.
NoCancelledEntries ==
    ed.phase # "off" =>
        /\ \A i \in DOMAIN ed.m.undo_stack_ : ~IsNoOp(ed.m.undo_stack_[i])
        /\ \A i \in DOMAIN ed.m.redo_stack_ : ~IsNoOp(ed.m.redo_stack_[i])

\* The stack without the uninvertible entries on top of it.
RECURSIVE DropUninvertible(_)
DropUninvertible(stack) ==
    IF stack # <<>> /\ ~InverseOk(Last(stack))
    THEN DropUninvertible(SubSeq(stack, 1, Len(stack) - 1))
    ELSE stack

\* C18: undo over an uninvertible entry. When the top undo entry is a delete
\* without deleted text, undo raises no error, discards that entry and does
\* what it would have done on the stack without it.
UndoSkipsUninvertible ==
    (/\ ed.phase # "off"
     /\ ed.last.kind = "undo"
     /\ ed.last.before.undo_stack_ # <<>>
     /\ ~InverseOk(Last(ed.last.before.undo_stack_)))
    => LET expected == undo([ed.last.before EXCEPT
                                !.undo_stack_ = DropUninvertible(@)])
       IN /\ ed.last.result # "threw"
          /\ ed.last.result = expected.result
          /\ ed.m = expected.m

\* ------------------------------------------------------------------------
\* Properties of inverse and of delete against delete
\* ------------------------------------------------------------------------

\* C19 as stated, for every delete that applies, the empty one included:
\* A.inverse() exists and applied after A gives T again.
InverseRoundTripAnyLength ==
    ot.phase = "inverted" =>
        /\ ot.inverse = "ok"
        /\ ot.backOk
        /\ ot.back = ot.T

\* C19: inverse round trip. For every text T and every insert, or delete of
\* positive length, A that applies to T, the delete taking its deleted text
\* on apply, A.inverse() exists and applied after A gives T again.
InverseRoundTrip ==
    (ot.phase = "inverted" /\ (ot.A.type = "insert" \/ ot.A.length > 0)) =>
        /\ ot.inverse = "ok"
        /\ ot.backOk
        /\ ot.back = ot.T

\* A delete of two characters drawn without its text, applied and inverted.
DeleteInverted ==
    /\ ot.phase = "inverted"
    /\ ot.A.type = "delete"
    /\ ot.A.length = 2
    /\ ot.A.deleted_text = <<>>
    /\ ot.applied.deleted_text # <<>>
    /\ ot.after # ot.T

\* What the interval rules prescribe for self = [a, a+n) against
\* other = [b, b+m): position, length and text of the transformed delete.
\* Where two rules meet on an empty interval they prescribe the same.
CaseBefore(a, n, b, m) == b + m <= a
CaseCovers(a, n, b, m) == b <= a /\ b + m >= a + n
CaseHead(a, n, b, m)   == b <= a /\ a < b + m /\ b + m < a + n
CaseTail(a, n, b, m)   == a < b /\ b < a + n /\ a + n <= b + m
CaseInside(a, n, b, m) == a < b /\ b + m < a + n
CaseAfter(a, n, b, m)  == b >= a + n

CasesThatApply(a, n, b, m) ==
    {c \in 1 .. 6 :
        \/ c = 1 /\ CaseBefore(a, n, b, m)
        \/ c = 2 /\ CaseCovers(a, n, b, m)
        \/ c = 3 /\ CaseHead(a, n, b, m)
        \/ c = 4 /\ CaseTail(a, n, b, m)
        \/ c = 5 /\ CaseInside(a, n, b, m)
        \/ c = 6 /\ CaseAfter(a, n, b, m)}

Prescribed(self, other) ==
    LET a == self.position
        n == self.length
        b == other.position
        m == other.length
        dt == self.deleted_text
        has == Len(dt) = n
    IN IF CaseBefore(a, n, b, m)
       THEN [position |-> a - m, length |-> n, text |-> dt]
       ELSE IF CaseCovers(a, n, b, m)
       THEN [position |-> b, length |-> 0, text |-> <<>>]
       ELSE IF CaseHead(a, n, b, m)
       THEN [position |-> b, length |-> (a + n) - (b + m),
             text |-> IF has THEN SubSeq(dt, (b + m) - a + 1, n) ELSE <<>>]
       ELSE IF CaseTail(a, n, b, m)
       THEN [position |-> a, length |-> b - a,
             text |-> IF has THEN SubSeq(dt, 1, b - a) ELSE <<>>]
       ELSE IF CaseInside(a, n, b, m)
       THEN [position |-> a, length |-> n - m,
             text |-> IF has
                      THEN SubSeq(dt, 1, b - a) \o SubSeq(dt, (b + m) - a + 1, n)
                      ELSE <<>>]
       ELSE [position |-> a, length |-> n, text |-> dt]

BothDeletes == ot.phase = "transformed" /\ ot.A.type = "delete" /\ ot.B.type = "delete"

CloneEqualsOriginal ==
    ot.phase = "cloned" => ot.copy = ot.original

\* C22: transform order independence. For A and two concurrent operations B
\* and C, A.transform(B).transform(C) is the same edit as
\* A.transform(C).transform(B).
TransformOrderIndependent ==
    ot.phase = "twice" => SameEdit(ot.viaB, ot.viaC)

\* ------------------------------------------------------------------------
\* Properties of the session registry
\* ------------------------------------------------------------------------

\* Sessions of the registry that are authenticated.
Authenticated == {s \in reg.sessions_ : reg.session[s].state_ = "AUTHENTICATED"}

\* C23: username uniqueness. No two live sessions are authenticated with the
\* same username, also when their logins run at the same time on different
\* worker threads.
UsernameUnique ==
    \A s \in Authenticated : \A t \in Authenticated :
        s # t => reg.session[s].username_ # reg.session[t].username_

\* C24: every session in state AUTHENTICATED has a non-empty username,
\* whatever login message the server accepted.
AuthenticatedHasUsername ==
    \A s \in Sids :
        reg.session[s].state_ = "AUTHENTICATED" => reg.session[s].username_ # ""

\* Sessions that were created and that no closeSession call has closed.
Live == {s \in Sids : reg.conn[s].pc # "none"} \ reg.closed

\* C25: Disconnected is terminal. Once a session has been closed, by
\* handleError or by idle eviction, getSession and getSessionByUsername do
\* not return it, closeSession on it returns false, and it stays
\* DISCONNECTED whatever is called for it, authenticateSession included.
DisconnectedIsTerminal ==
    /\ \A s \in reg.closed :
        /\ getSession(reg, s) = NullSession
        /\ \A n \in Usernames : getSessionByUsername(reg, n) # s
        /\ reg.session[s].state_ = "DISCONNECTED"
    /\ (reg.last.kind = "closeSession" /\ reg.last.wasClosed)
           => reg.last.result = FALSE

\* A login whose authenticateSession ran after the session was closed.
LoginAfterClose ==
    /\ reg.last.kind = "LOGIN"
    /\ reg.last.sid \in reg.closed
    /\ reg.last.result = "ERROR: Authentication failed"

\* C26: closing releases the username. Every name a closed session was
\* bound to is available again unless a live session holds it, and a name
\* held by a live session is not available.
UsernameReleased ==
    /\ \A s \in reg.closed : \A n \in reg.bound[s] :
           (\A t \in Authenticated : reg.session[t].username_ # n)
               => isUsernameAvailable(reg, n)
    /\ \A t \in Authenticated :
           ~isUsernameAvailable(reg, reg.session[t].username_)

\* C27: membership index. getUsersOnDocument(d) returns exactly the
\* usernames of the live sessions that are AUTHENTICATED and have d among
\* their active documents: no session that is not authenticated, no closed
\* session.
MembershipExact ==
    \A d \in Documents :
        getUsersOnDocument(reg, d) =
            {reg.session[s].username_ :
                s \in {t \in Live : /\ reg.session[t].state_ = "AUTHENTICATED"
                                    /\ d \in reg.session[t].active_documents_}}

\* A document with an authenticated member that is listed and with a session
\* that is not listed: one that never logged in, or one that was closed.
MemberAndOutsider ==
    \E d \in Documents : \E s \in Authenticated : \E t \in Sids :
        /\ d \in reg.session[s].active_documents_
        /\ d \in reg.session[t].active_documents_
        /\ t \notin Authenticated
        /\ reg.session[t].username_ # reg.session[s].username_
        /\ getUsersOnDocument(reg, d) = {reg.session[s].username_}

\* C28: idle eviction is exact. cleanupIdleSessions(maxIdle) closes every
\* session that was idle for longer than maxIdle seconds when it was called,
\* keeps every session that was idle for less, and returns the number of
\* sessions it closed.
EvictionExact ==
    reg.last.kind = "cleanupIdleSessions" =>
        LET limit == reg.last.maxIdleSeconds * TicksPerSecond
        IN /\ \A s \in Sids :
                /\ reg.last.idleAt[s] > limit => s \in reg.last.did
                /\ (reg.last.idleAt[s] >= 0 /\ reg.last.idleAt[s] < limit)
                       => (s \notin reg.last.did /\ s \in reg.sessions_)
           /\ reg.last.result = Cardinality(reg.last.did)

\* C29: transport close on removal. A session that is no longer in the
\* registry has its socket closed, and the socket was shut down and closed
\* exactly once, however many of closeSession, idle eviction and connection
\* error ran for it.
TransportClosedOnce ==
    \A s \in Sids :
        /\ reg.shutdowns[s] <= 1
        /\ (reg.conn[s].pc # "none" /\ s \notin reg.sessions_)
               => (~reg.is_open[s] /\ reg.shutdowns[s] = 1)

\* A session evicted by the cleanup whose connection then failed and closed
\* it again.
RemovedTwice ==
    /\ reg.last.kind = "closeSession"
    /\ reg.last.wasClosed
    /\ ~reg.is_open[reg.last.sid]
    /\ reg.shutdowns[reg.last.sid] = 1

\* C30: a connection that sends document requests before it is
\* authenticated is closed after at most 3 of them.
ViolationsBounded ==
    \A s \in Sids : reg.violations[s] >= 3 => ~reg.is_open[s]

\* ------------------------------------------------------------------------
\* Properties of rejected edits and of captured delete text
\* ------------------------------------------------------------------------

Inconsistent(stack) ==
    {i \in 1 .. Len(stack) :
        /\ stack[i].type = "delete"
        /\ stack[i].deleted_text # <<>>
        /\ Len(stack[i].deleted_text) # stack[i].length}

\* C36: captured delete text stays consistent. Every delete in the undo or
\* redo stack, after any chain of transforms against remote operations, has
\* a captured text that is empty or exactly `length` characters long.
CapturedTextConsistent ==
    ed.phase # "off" =>
        /\ Inconsistent(ed.m.undo_stack_) = {}
        /\ Inconsistent(ed.m.redo_stack_) = {}

\* ------------------------------------------------------------------------
\* Properties of the client registry of the editing system
\* ------------------------------------------------------------------------

\* C37: client ids are unique among connected clients. Two clients connected
\* at the same time never have the same id, and every connected client
\* keeps its entry in clients_ when another connection is accepted.
ClientIdsUnique ==
    \A c \in Conns : Open(c) =>
        /\ \A d \in Conns : (Open(d) /\ d # c) => clientId[d] # clientId[c]
        /\ clientId[c] \in DOMAIN clients_
        /\ clients_[clientId[c]] = c

\* ------------------------------------------------------------------------
\* Properties of the client's pending queue
\* ------------------------------------------------------------------------

\* C38: no message is lost across connect. Once the connection handler has
\* run and every sendMessage call has returned, a connected client has no
\* message left in the pending queue: each was handed to the channel.
NoMessageLeftPending ==
    (/\ cm.phase = "on"
     /\ cm.handler = "done"
     /\ cm.connected_
     /\ \A t \in Senders : cm.sender[t].pc = "idle")
    => cm.pendingMessages_ = <<>>

\* ------------------------------------------------------------------------
\* Properties of the cleanup running beside the worker threads
\* ------------------------------------------------------------------------

\* C39: idle eviction never closes an active session. Every session that
\* cleanupIdleSessions closed had been idle for more than maxIdle seconds
\* at the moment of the close, also when a message for it was processed
\* between the scan and the close.
EvictionOnlyIdle ==
    /\ reg.cleanup.pc = "closing" =>
           \A s \in reg.cleanup.did :
               reg.cleanup.idleAtClose[s] > reg.cleanup.maxIdleSeconds
    /\ reg.last.kind = "cleanupIdleSessions" =>
           \A s \in reg.last.did :
               reg.last.idleAtClose[s] > reg.last.maxIdleSeconds

\* ------------------------------------------------------------------------
\* Properties of the threads' accesses to a session
\* ------------------------------------------------------------------------

\* Threads t and u are at the same field of the session at the same time,
\* and one of them writes it.
Conflict(t, u) ==
    /\ t # u
    /\ acc.at[t] # NoAccess
    /\ acc.at[u] # NoAccess
    /\ acc.at[t].field = acc.at[u].field
    /\ acc.at[t].write \/ acc.at[u].write

\* C31: session state is race-free. No two threads are ever at the same
\* field of a session at the same time with at least one of them writing:
\* the accesses of the workers, the cleanup timer and the registry are
\* ordered by the registry mutex.
SessionRaceFree == \A t \in AccThreads : \A u \in AccThreads : ~Conflict(t, u)

\* ------------------------------------------------------------------------
\* Properties of the server's shutdown
\* ------------------------------------------------------------------------

\* C32: graceful shutdown. Once the server is stopped, every session that
\* exists is closed together with its socket: the session count reaches 0.
StopClosesSessions ==
    (srv.phase = "on" /\ ~srv.running_)
        ~> (srv.sessions_ = {} /\ srv.is_open = {})

\* C33: shutdown on signal. After a signal is delivered to a running server,
\* or simulated with simulateSignal, the server eventually stops.
SignalStopsServer ==
    (srv.phase = "on" /\ srv.signalled) ~> ~srv.running_

\* ------------------------------------------------------------------------
\* Properties of the thread pool's shutdown
\* ------------------------------------------------------------------------

\* The tasks in the queue, and the tasks some worker is running.
Queued == {tp.tasks_[i] : i \in 1 .. Len(tp.tasks_)}
Running == {tp.worker[w].task : w \in {v \in Workers : tp.worker[v].pc = "running"}}

\* C34: the thread pool drains on shutdown. A task enqueue accepted is in
\* the queue, or being run by one worker, or was run exactly once, and never
\* two of these; a task enqueue did not accept is never run; and when the
\* destructor has returned every accepted task was run exactly once.
PoolDrains ==
    tp.phase = "on" =>
        /\ \A k \in TaskIds :
              /\ k \notin tp.accepted => (tp.runs[k] = 0 /\ k \notin Queued \cup Running)
              /\ k \in tp.accepted =>
                    /\ tp.runs[k] <= 1
                    /\ (IF k \in Queued THEN 1 ELSE 0)
                         + Cardinality({w \in Workers :
                                          /\ tp.worker[w].pc = "running"
                                          /\ tp.worker[w].task = k})
                         + tp.runs[k] = 1
        /\ tp.dtor = "returned" => \A k \in tp.accepted : tp.runs[k] = 1

\* The destructor returned, at least two tasks were still in the queue when
\* it began, and an enqueue on the stopped pool was refused.
DrainedOnDestroy ==
    /\ tp.phase = "on"
    /\ tp.dtor = "returned"
    /\ Cardinality(tp.queuedAtStop) >= 2
    /\ tp.ntask > Cardinality(tp.accepted)
    /\ \A k \in tp.accepted : tp.runs[k] = 1

\* ------------------------------------------------------------------------
\* Properties of the line-based Document
\* ------------------------------------------------------------------------

\* C40: line-based Document operations terminate. A call of undo, redo,
\* replaceText or getTextRange never tries to lock the document's mutex
\* while its thread already holds it, and never blocks for ever.
DocumentCallsReturn ==
    (/\ doc.phase = "on"
     /\ doc.call \in {"undo", "redo", "replaceText", "getTextRange"})
    => doc.pc \notin {"locking", "deadlocked"}

====
